---- MODULE Spec2Model ----
(***************************************************************************)
(* SmartEats: the nutrition calculator (BMR / TDEE / macros), its copies   *)
(* in the other backends, and the Flask handlers of src/app.py that use    *)
(* it.                                                                     *)
(*                                                                         *)
(* Numbers.  The program computes with Python ints and floats.  The model  *)
(* computes with exact rationals, kept in lowest terms as records          *)
(* [n |-> numerator, d |-> denominator > 0].  round() is Python 3's        *)
(* round-half-to-even.  The input sets below hold only values on which     *)
(* the float computation and the exact one round to the same result.       *)
(*                                                                         *)
(* Strings.  A gender is a sequence of one-character strings, so that      *)
(* str.lower() is computed character by character.                         *)
(***************************************************************************)
EXTENDS Integers, Sequences, FiniteSets, TLC

(***************************************************************************)
(* Exact arithmetic                                                        *)
(***************************************************************************)
Abs(i) == IF i < 0 THEN -i ELSE i

RECURSIVE GCD(_, _)
GCD(a, b) == IF b = 0 THEN a ELSE GCD(b, a % b)

\* the rational n/d (d # 0) in lowest terms with a positive denominator
Rat(n, d) ==
    LET g == GCD(Abs(n), Abs(d))
        s == IF d < 0 THEN -1 ELSE 1
    IN  [n |-> (s * n) \div g, d |-> (s * d) \div g]

R(i) == [n |-> i, d |-> 1]

RAdd(x, y) == Rat(x.n * y.d + y.n * x.d, x.d * y.d)
RSub(x, y) == Rat(x.n * y.d - y.n * x.d, x.d * y.d)
RMul(x, y) == Rat(x.n * y.n, x.d * y.d)
\* y # 0
RDiv(x, y) == Rat(x.n * y.d, x.d * y.n)
RLt(x, y) == x.n * y.d < y.n * x.d
RLe(x, y) == x.n * y.d <= y.n * x.d
RMin(x, y) == IF RLt(y, x) THEN y ELSE x
RMax(x, y) == IF RLt(x, y) THEN y ELSE x

\* Python round(x): the nearest integer, a tie going to the even one
Round(x) ==
    LET q == x.n \div x.d
        r == 2 * (x.n - q * x.d)
    IN  IF r < x.d THEN q
        ELSE IF r > x.d THEN q + 1
        ELSE IF q % 2 = 0 THEN q ELSE q + 1

\* Python round(x, 1): one decimal
Round1(x) == Rat(Round(RMul(x, R(10))), 10)

\* Python int(x): truncation toward zero
Trunc(x) == IF x.n >= 0 THEN x.n \div x.d ELSE -((-x.n) \div x.d)

(***************************************************************************)
(* Strings as character sequences; str.lower()                             *)
(***************************************************************************)
UpperChars ==
    <<"A", "B", "C", "D", "E", "F", "G", "H", "I", "J", "K", "L", "M",
      "N", "O", "P", "Q", "R", "S", "T", "U", "V", "W", "X", "Y", "Z">>
LowerChars ==
    <<"a", "b", "c", "d", "e", "f", "g", "h", "i", "j", "k", "l", "m",
      "n", "o", "p", "q", "r", "s", "t", "u", "v", "w", "x", "y", "z">>

LowerChar(c) ==
    IF \E i \in 1..Len(UpperChars) : UpperChars[i] = c
    THEN LowerChars[CHOOSE i \in 1..Len(UpperChars) : UpperChars[i] = c]
    ELSE c

Lower(s) == [i \in 1..Len(s) |-> LowerChar(s[i])]

StrMale == <<"m", "a", "l", "e">>

(***************************************************************************)
(* Outcomes of a call: a returned value, or the exception it raised        *)
(***************************************************************************)
Returned(v) == [error |-> "none", value |-> v]
Raised(e) == [error |-> e, value |-> R(0)]

\* a JSON value float() and the arithmetic operators reject (a non-numeric
\* string): the only non-number the input sets hold
NotANumber == [n |-> 0, d |-> 0]
IsNumber(x) == x.d # 0

(***************************************************************************)
(* src/app.py: NutritionCalculator                                         *)
(***************************************************************************)
\* 10 * weight + 6.25 * height - 5 * age, the part both branches share
MifflinStJeor(weight, height, age) ==
    RSub(RAdd(RMul(R(10), weight), RMul(Rat(25, 4), height)), RMul(R(5), age))

\* the male constant given the wrong sign
calculate_bmr_sign(weight, height, age, gender) ==
    IF ~(IsNumber(weight) /\ IsNumber(height) /\ IsNumber(age))
    THEN Raised("TypeError")
    ELSE IF Lower(gender) = StrMale
         THEN Returned(RSub(MifflinStJeor(weight, height, age), R(5)))
         ELSE Returned(RSub(MifflinStJeor(weight, height, age), R(161)))

calculate_bmr(weight, height, age, gender) ==
    IF ~(IsNumber(weight) /\ IsNumber(height) /\ IsNumber(age))
    THEN Raised("TypeError")
    ELSE IF Lower(gender) = StrMale
         THEN Returned(RAdd(MifflinStJeor(weight, height, age), R(5)))
         ELSE Returned(RSub(MifflinStJeor(weight, height, age), R(161)))

activity_multipliers ==
    [sedentary |-> Rat(12, 10), light |-> Rat(1375, 1000), moderate |-> Rat(155, 100),
     very |-> Rat(1725, 1000), extra |-> Rat(19, 10)]

\* the lookup falling back to the moderate multiplier
ActivityMultiplierModerate(activity_level) ==
    IF activity_level \in DOMAIN activity_multipliers
    THEN activity_multipliers[activity_level]
    ELSE Rat(155, 100)

\* activity_multipliers.get(activity_level, 1.2)
ActivityMultiplier(activity_level) ==
    IF activity_level \in DOMAIN activity_multipliers
    THEN activity_multipliers[activity_level]
    ELSE Rat(12, 10)

calculate_tdee(bmr, activity_level) == RMul(bmr, ActivityMultiplier(activity_level))

\* the surplus of "gain" as large as the deficit of "lose"
GoalCaloriesSymmetric(tdee, goal) ==
    IF goal = "lose" THEN RSub(tdee, R(500))
    ELSE IF goal = "gain" THEN RAdd(tdee, R(500))
    ELSE tdee

\* every goal but "gain" treated as "lose"
GoalCaloriesDeficit(tdee, goal) ==
    IF goal = "gain" THEN RAdd(tdee, R(300)) ELSE RSub(tdee, R(500))

\* the calorie target for a goal, before rounding
GoalCalories(tdee, goal) ==
    IF goal = "lose" THEN RSub(tdee, R(500))
    ELSE IF goal = "gain" THEN RAdd(tdee, R(300))
    ELSE tdee

\* the macronutrients in grams, before rounding
MacroProtein(weight) == RMul(weight, Rat(22, 10))
\* 30% of the calories from fat
MacroFatThirty(calories) == RDiv(RMul(calories, Rat(30, 100)), R(9))

MacroFat(calories) == RDiv(RMul(calories, Rat(25, 100)), R(9))
\* carbs clamped at zero
MacroCarbsClamped(calories, protein, fat) ==
    RMax(R(0), RDiv(RSub(RSub(calories, RMul(protein, R(4))), RMul(fat, R(9))), R(4)))

MacroCarbs(calories, protein, fat) ==
    RDiv(RSub(RSub(calories, RMul(protein, R(4))), RMul(fat, R(9))), R(4))
MacroWater(weight) == RMul(weight, Rat(35, 1000))

\* protein as 30% of the calories instead of 2.2 g per kg
calculate_macros_share(tdee, weight, goal) ==
    LET calories == GoalCalories(tdee, goal)
        protein == RDiv(RMul(calories, Rat(30, 100)), R(4))
        fat == MacroFat(calories)
        carbs == MacroCarbs(calories, protein, fat)
        water == MacroWater(weight)
    IN  [calories |-> Round(calories), protein |-> Round(protein),
         carbs |-> Round(carbs), fat |-> Round(fat), water |-> Round1(water)]

calculate_macros(tdee, weight, goal) ==
    LET calories == GoalCalories(tdee, goal)
        protein == MacroProtein(weight)
        fat == MacroFat(calories)
        carbs == MacroCarbs(calories, protein, fat)
        water == MacroWater(weight)
    IN  [calories |-> Round(calories), protein |-> Round(protein),
         carbs |-> Round(carbs), fat |-> Round(fat), water |-> Round1(water)]

\* x lies exactly halfway between two integers
Halfway(x) == 2 * (x.n - (x.n \div x.d) * x.d) = x.d

\* The inputs on which rounding the exact protein, carbs and water agrees
\* with rounding the floats the program computes: 2.2 and 0.035 are no
\* binary fractions and fat * 9 is inexact, so where the exact value is
\* halfway the float is a hair off it and may round either way.  (fat and
\* calories are halfway only where the float is exactly halfway too.)
MacrosRoundAsFloats(tdee, weight, goal) ==
    LET calories == GoalCalories(tdee, goal)
        protein == MacroProtein(weight)
    IN  /\ ~Halfway(protein)
        /\ ~Halfway(MacroCarbs(calories, protein, MacroFat(calories)))
        /\ ~Halfway(RMul(MacroWater(weight), R(10)))

(***************************************************************************)
(* src/backend_production.py: NutritionCalculator.calculate_bmr            *)
(***************************************************************************)
\* float(weight), float(height) and int(age) come first; a ValueError or
\* TypeError of theirs is raised again as ValueError
production_calculate_bmr(weight, height, age, gender) ==
    IF ~(IsNumber(weight) /\ IsNumber(height) /\ IsNumber(age))
    THEN Raised("ValueError")
    ELSE IF Lower(gender) = StrMale
         THEN Returned(RAdd(MifflinStJeor(weight, height, R(Trunc(age))), R(5)))
         ELSE Returned(RSub(MifflinStJeor(weight, height, R(Trunc(age))), R(161)))

(***************************************************************************)
(* src/backend/app.py and src/netlify/functions/api.py:                    *)
(* calculate_nutrition_values(data), called once the five required fields  *)
(* are known to be present                                                 *)
(***************************************************************************)
backend_calculate_nutrition_values(data) ==
    IF ~(IsNumber(data.age) /\ IsNumber(data.height) /\ IsNumber(data.weight))
    THEN Raised("TypeError")
    ELSE IF data.height.n = 0
    THEN Raised("ZeroDivisionError")
    ELSE
    LET height_m == RDiv(data.height, R(100))
        bmi == RDiv(data.weight, RMul(height_m, height_m))
        bmr == IF data.gender = StrMale
               THEN RAdd(MifflinStJeor(data.weight, data.height, data.age), R(5))
               ELSE RSub(MifflinStJeor(data.weight, data.height, data.age), R(161))
        tdee == RMul(bmr, ActivityMultiplier(data.activity))
        protein == RMul(data.weight, Rat(22, 10))
        fat == RDiv(RMul(tdee, Rat(25, 100)), R(9))
        carbs == RDiv(RSub(RSub(tdee, RMul(protein, R(4))), RMul(fat, R(9))), R(4))
        water == RMul(data.weight, Rat(35, 1000))
    IN  Returned([bmi |-> Round1(bmi), bmr |-> Round(bmr), tdee |-> Round(tdee),
                  calories |-> Round(tdee), protein |-> Round(protein),
                  carbs |-> Round(carbs), fat |-> Round(fat), water |-> Round1(water)])

netlify_calculate_nutrition_values(data) ==
    IF ~(IsNumber(data.age) /\ IsNumber(data.height) /\ IsNumber(data.weight))
    THEN Raised("TypeError")
    ELSE IF data.height.n = 0
    THEN Raised("ZeroDivisionError")
    ELSE
    LET height_m == RDiv(data.height, R(100))
        bmi == RDiv(data.weight, RMul(height_m, height_m))
        bmr == IF data.gender = StrMale
               THEN RAdd(MifflinStJeor(data.weight, data.height, data.age), R(5))
               ELSE RSub(MifflinStJeor(data.weight, data.height, data.age), R(161))
        tdee == RMul(bmr, ActivityMultiplier(data.activity))
        protein == RMul(data.weight, Rat(22, 10))
        fat == RDiv(RMul(tdee, Rat(25, 100)), R(9))
        carbs == RDiv(RSub(RSub(tdee, RMul(protein, R(4))), RMul(fat, R(9))), R(4))
        water == RMul(data.weight, Rat(35, 1000))
    IN  Returned([bmi |-> Round1(bmi), bmr |-> Round(bmr), tdee |-> Round(tdee),
                  calories |-> Round(tdee), protein |-> Round(protein),
                  carbs |-> Round(carbs), fat |-> Round(fat), water |-> Round1(water)])

\* as MacrosRoundAsFloats, for calculate_nutrition_values: here tdee, fat
\* and bmi are products and quotients of inexact floats as well
ValuesRoundAsFloats(data) ==
    IF ~(IsNumber(data.age) /\ IsNumber(data.height) /\ IsNumber(data.weight))
    THEN TRUE
    ELSE IF data.height.n = 0
    THEN TRUE
    ELSE
    LET height_m == RDiv(data.height, R(100))
        bmr == IF data.gender = StrMale
               THEN RAdd(MifflinStJeor(data.weight, data.height, data.age), R(5))
               ELSE RSub(MifflinStJeor(data.weight, data.height, data.age), R(161))
        tdee == RMul(bmr, ActivityMultiplier(data.activity))
    IN  /\ MacrosRoundAsFloats(tdee, data.weight, "maintain")
        /\ ~Halfway(tdee)
        /\ ~Halfway(MacroFat(tdee))
        /\ ~Halfway(RMul(RDiv(data.weight, RMul(height_m, height_m)), R(10)))

(***************************************************************************)
(* Bounds and input sets                                                   *)
(***************************************************************************)
MaxWeight == 6
MaxHeight == 1
MaxAge == 1
MaxBmrQuarters == 40
MaxTdeeFifths == 300
TdeeBase == 2000

\* kilograms: small values around zero, the tests' 60 and 70, a fraction
Weights ==
    {R(w) : w \in -1..MaxWeight} \cup {R(60), R(70), Rat(131, 2), NotANumber}
\* centimetres
Heights == {R(h) : h \in -1..MaxHeight} \cup {R(165), R(175), NotANumber}
\* years; 25.5 is a float int() truncates
Ages == {R(a) : a \in -1..MaxAge} \cup {R(25), R(30), Rat(51, 2)}

Genders ==
    { <<"m","a","l","e">>, <<"M","a","l","e">>, <<"M","A","L","E">>,
      <<"m","A","l","E">>, <<"f","e","m","a","l","e">>,
      <<"F","e","m","a","l","e">>, <<"o","t","h","e","r">>,
      <<"m","a","l","e","s">>, <<>> }

Activities ==
    {"sedentary", "light", "moderate", "very", "extra", "Moderate", "active", ""}

Goals == {"lose", "gain", "maintain", "Lose", "bulk"}

BmrVals == {Rat(k, 4) : k \in -4..MaxBmrQuarters} \cup {Rat(5381, 4), Rat(6595, 4)}

TdeeVals ==
    {Rat(k, 5) : k \in 0..MaxTdeeFifths}
        \cup {Rat(TdeeBase * 5 + k, 5) : k \in 0..MaxTdeeFifths}

(***************************************************************************)
(* State                                                                   *)
(***************************************************************************)
VARIABLES
    call,       \* the last call of a calculator function: [op, args, out]
    users,      \* the User table: a sequence of rows, ids in order
    tokens,     \* the identities access tokens were issued for
    profiles,   \* the UserProfile table
    plans,      \* the NutritionPlan table
    request,    \* the HTTP request being answered: [op, token, body]
    response,   \* the answer to it
    meal_logs,  \* the MealLog table
    user_achievements,  \* the UserAchievement table
    clock,      \* datetime.utcnow().date(), as a day number
    uploads,    \* the files of images/uploads
    workers     \* the server's threads: what each is running, and its locals

mealVars == <<meal_logs, user_achievements, clock>>
sideVars == <<uploads, workers>>
apiVars ==
    <<users, tokens, profiles, plans, request, response, meal_logs,
      user_achievements, clock, uploads, workers>>
vars ==
    <<call, users, tokens, profiles, plans, request, response, meal_logs,
      user_achievements, clock, uploads, workers>>

NoCall == [op |-> "none"]
NoRequest == [op |-> "none"]
NoResponse == [status |-> 0]

\* the threads that serve requests side by side
MaxThreads == 2
Threads == 1..MaxThreads
Idle == [pc |-> "idle"]

\* db.create_all() on an empty database: no user, profile, plan or meal yet
Init ==
    /\ call = NoCall
    /\ users = <<>>
    /\ tokens = {}
    /\ profiles = <<>>
    /\ plans = <<>>
    /\ request = NoRequest
    /\ response = NoResponse
    /\ meal_logs = <<>>
    /\ user_achievements = <<>>
    /\ clock = 0
    /\ uploads = {}
    /\ workers = [w \in Threads |-> Idle]

(***************************************************************************)
(* The calculator functions, applied to every input of the sets above      *)
(***************************************************************************)
CallCalculateBmr ==
    /\ call = NoCall
    /\ UNCHANGED apiVars
    /\ \E weight \in Weights, height \in Heights, age \in Ages, gender \in Genders :
        call' = [op |-> "calculate_bmr",
                 args |-> [weight |-> weight, height |-> height, age |-> age,
                           gender |-> gender],
                 out |-> calculate_bmr(weight, height, age, gender)]

CallProductionCalculateBmr ==
    /\ call = NoCall
    /\ UNCHANGED apiVars
    /\ \E weight \in Weights, height \in Heights, age \in Ages, gender \in Genders :
        call' = [op |-> "production_calculate_bmr",
                 args |-> [weight |-> weight, height |-> height, age |-> age,
                           gender |-> gender],
                 out |-> production_calculate_bmr(weight, height, age, gender)]

NutritionData ==
    [weight : Weights, height : Heights, age : Ages, gender : Genders,
     activity : {"moderate", "very", "active"}]

CallBackendNutritionValues ==
    /\ call = NoCall
    /\ UNCHANGED apiVars
    /\ \E data \in NutritionData :
        /\ ValuesRoundAsFloats(data)
        /\ call' = [op |-> "backend_calculate_nutrition_values", args |-> data,
                 out |-> backend_calculate_nutrition_values(data)]

CallNetlifyNutritionValues ==
    /\ call = NoCall
    /\ UNCHANGED apiVars
    /\ \E data \in NutritionData :
        /\ ValuesRoundAsFloats(data)
        /\ call' = [op |-> "netlify_calculate_nutrition_values", args |-> data,
                 out |-> netlify_calculate_nutrition_values(data)]

CallCalculateTdee ==
    /\ call = NoCall
    /\ UNCHANGED apiVars
    /\ \E bmr \in BmrVals, activity_level \in Activities :
        call' = [op |-> "calculate_tdee",
                 args |-> [bmr |-> bmr, activity_level |-> activity_level],
                 out |-> calculate_tdee(bmr, activity_level)]

CallCalculateMacros ==
    /\ call = NoCall
    /\ UNCHANGED apiVars
    /\ \E tdee \in TdeeVals, weight \in Weights \ {NotANumber}, goal \in Goals :
        /\ MacrosRoundAsFloats(tdee, weight, goal)
        /\ call' = [op |-> "calculate_macros",
                 args |-> [tdee |-> tdee, weight |-> weight, goal |-> goal],
                 out |-> calculate_macros(tdee, weight, goal)]

\* calculate_macros applied to the calories of its own result
CallMacrosRoundTrip ==
    /\ call = NoCall
    /\ UNCHANGED apiVars
    /\ \E tdee \in TdeeVals, weight \in Weights \ {NotANumber} :
        LET first == calculate_macros(tdee, weight, "maintain")
        IN  /\ MacrosRoundAsFloats(tdee, weight, "maintain")
            /\ MacrosRoundAsFloats(R(first.calories), weight, "maintain")
            /\ call' = [op |-> "macros_round_trip",
                     args |-> [tdee |-> tdee, weight |-> weight],
                     out |-> [first |-> first,
                              second |-> calculate_macros(R(first.calories), weight,
                                                          "maintain")]]

\* the caller takes the result; the next call starts from nothing, as the
\* functions keep no state
ReturnToCaller == call # NoCall /\ call' = NoCall /\ UNCHANGED apiVars

EngineInit == Init

EngineNext ==
    \/ CallCalculateBmr
    \/ CallProductionCalculateBmr
    \/ CallBackendNutritionValues
    \/ CallNetlifyNutritionValues
    \/ CallCalculateTdee
    \/ CallCalculateMacros
    \/ CallMacrosRoundTrip
    \/ ReturnToCaller

EngineSpec == EngineInit /\ [][EngineNext]_vars


(***************************************************************************)
(* src/app.py: the Flask handlers.  A request body is a function from the  *)
(* JSON keys it holds to their values; a token is the identity it was      *)
(* issued for, or NoToken for a missing, expired or invalid one.           *)
(***************************************************************************)
MaxUsers == 2
MaxPlans == 2
MaxSleep == 10
MaxStress == 11

NoToken == 0

Has(body, key) == key \in DOMAIN body

\* body without the key
Without(body, key) == [k \in (DOMAIN body) \ {key} |-> body[k]]

\* generate_password_hash / check_password_hash: the stored value holds a
\* digest of the password, never the password
generate_password_hash(password) == <<"digest", password>>

RegisterBodies ==
    LET full == {[name |-> "Ann", email |-> "a@x.org", password |-> "pw1"],
                 [name |-> "Bob", email |-> "a@x.org", password |-> "pw2"],
                 [name |-> "Ann", email |-> "b@x.org", password |-> "pw2"]}
    IN  full \cup {Without(b, "password") : b \in full}

\* @jwt_required(): the handler runs only for a token this server issued;
\* every other request is answered 401 before the handler's body
Unauthorized == [status |-> 401]

\* a lookup that finds no account
FirstUserByEmailNone(email) == 0

\* User.query.filter_by(email=email).first(): the row's index, 0 for None
FirstUserByEmail(email) ==
    IF \E i \in 1..Len(users) : users[i].email = email
    THEN CHOOSE i \in 1..Len(users) :
            /\ users[i].email = email
            /\ \A j \in 1..(i - 1) : users[j].email # email
    ELSE 0

Register ==
    \E data \in RegisterBodies :
        /\ request = NoRequest
        /\ request' = [op |-> "register", token |-> NoToken, body |-> data]
        /\ IF ~(Has(data, "name") /\ Has(data, "email") /\ Has(data, "password"))
           THEN /\ response' = [status |-> 400, success |-> FALSE,
                                message |-> "Missing required fields"]
                /\ UNCHANGED <<users, tokens>>
           ELSE IF FirstUserByEmail(data.email) # 0
           THEN /\ response' = [status |-> 409, success |-> FALSE,
                                message |-> "Email already registered"]
                /\ UNCHANGED <<users, tokens>>
           ELSE /\ Len(users) < MaxUsers
                /\ LET user == [id |-> Len(users) + 1, name |-> data.name,
                                email |-> data.email,
                                password_hash |-> generate_password_hash(data.password),
                                is_premium |-> FALSE]
                   IN  /\ users' = Append(users, user)
                       /\ tokens' = tokens \cup {user.id}
                       /\ response' = [status |-> 201, success |-> TRUE,
                                       message |-> "User registered successfully",
                                       user |-> [id |-> user.id, name |-> user.name,
                                                 email |-> user.email],
                                       access_token |-> user.id]
        /\ UNCHANGED <<call, profiles, plans>>
        /\ UNCHANGED <<mealVars, sideVars>>

NutritionBodies ==
    LET full == [age : {R(25)}, gender : {<<"f","e","m","a","l","e">>, StrMale},
                 height : {R(165), R(0)}, weight : {R(60)},
                 activity : {"moderate"}]
        goals == {"lose", "gain"}
    IN  full \cup {Without(b, "weight") : b \in full}
             \cup {Without(b, "activity") : b \in full}
             \cup {b @@ [goal |-> goal] :
                        b \in {c \in full : c.gender = StrMale /\ c.height = R(165)},
                        goal \in goals}

\* the first of the keys the body lacks, "none" when it holds them all
FirstMissing(data, keys) ==
    IF \E i \in 1..Len(keys) : ~Has(data, keys[i])
    THEN keys[CHOOSE i \in 1..Len(keys) :
                /\ ~Has(data, keys[i])
                /\ \A j \in 1..(i - 1) : Has(data, keys[j])]
    ELSE "none"

\* except Exception as e: the message is str(e), here the missing key of a
\* KeyError or the name of the exception
ServerError(message) == [status |-> 500, success |-> FALSE, message |-> message]

\* the rows of a table with the user_id, in order
RowsOf(table, user_id) == {i \in 1..Len(table) : table[i].user_id = user_id}

CalculateNutrition ==
    \E token \in tokens \cup {NoToken}, data \in NutritionBodies :
        /\ request = NoRequest
        /\ request' = [op |-> "calculate_nutrition", token |-> token, body |-> data]
        /\ UNCHANGED <<call, users, tokens>>
        /\ UNCHANGED <<mealVars, sideVars>>
        /\ IF token \notin tokens
           THEN response' = Unauthorized /\ UNCHANGED <<profiles, plans>>
           ELSE IF FirstMissing(data, <<"weight", "height", "age", "gender">>) # "none"
           THEN /\ response' = ServerError(
                        FirstMissing(data, <<"weight", "height", "age", "gender">>))
                /\ UNCHANGED <<profiles, plans>>
           ELSE IF calculate_bmr(data.weight, data.height, data.age, data.gender).error
                        # "none"
           THEN /\ response' = ServerError("TypeError")
                /\ UNCHANGED <<profiles, plans>>
           ELSE IF ~Has(data, "activity")
           THEN /\ response' = ServerError("activity")
                /\ UNCHANGED <<profiles, plans>>
           ELSE IF data.height.n = 0
           THEN /\ response' = ServerError("ZeroDivisionError")
                /\ UNCHANGED <<profiles, plans>>
           ELSE
           LET user_id == token
               bmr == calculate_bmr(data.weight, data.height, data.age,
                                    data.gender).value
               tdee == calculate_tdee(bmr, data.activity)
               height_m == RDiv(data.height, R(100))
               bmi == RDiv(data.weight, RMul(height_m, height_m))
               macros == calculate_macros(tdee, data.weight, "maintain")
               nutrition_plan ==
                   [id |-> Len(plans) + 1, user_id |-> user_id,
                    calories |-> macros.calories, protein |-> macros.protein,
                    carbs |-> macros.carbs, fat |-> macros.fat,
                    water |-> macros.water, bmr |-> bmr, tdee |-> tdee,
                    bmi |-> Round1(bmi)]
               mine == RowsOf(profiles, user_id)
               fields == [age |-> data.age, gender |-> data.gender,
                          height |-> data.height, weight |-> data.weight,
                          activity_level |-> data.activity]
           IN  /\ Len(plans) < MaxPlans
               /\ plans' = Append(plans, nutrition_plan)
               /\ profiles' =
                    IF mine = {}
                    THEN Append(profiles,
                                [id |-> Len(profiles) + 1, user_id |-> user_id]
                                    @@ fields)
                    ELSE LET first == CHOOSE i \in mine : \A j \in mine : i <= j
                         IN  [profiles EXCEPT ![first] =
                                [id |-> profiles[first].id, user_id |-> user_id]
                                    @@ fields]
               /\ response' =
                    [status |-> 200, success |-> TRUE,
                     results |-> [bmi |-> Round1(bmi), bmr |-> Round(bmr),
                                  tdee |-> Round(tdee), calories |-> macros.calories,
                                  protein |-> macros.protein, carbs |-> macros.carbs,
                                  fat |-> macros.fat, water |-> macros.water]]

WellnessBodies ==
    LET sleeps == {R(h) : h \in -1..MaxSleep} \cup {NotANumber}
        stresses == {R(l) : l \in -1..MaxStress}
        full == [sleep_hours : sleeps, stress_level : stresses]
    IN  full \cup {Without(b, "sleep_hours") : b \in full}
             \cup {Without(b, "stress_level") : b \in full}
             \cup {Without(Without(b, "sleep_hours"), "stress_level") : b \in full}

\* data.get(key, default)
Get(data, key, default) == IF Has(data, key) THEN data[key] ELSE default

\* the sleep score without its cap of 50
sleep_score_uncapped(sleep_hours) == RMul(RDiv(sleep_hours, R(8)), R(50))

sleep_score(sleep_hours) == RMin(R(50), RMul(RDiv(sleep_hours, R(8)), R(50)))
stress_score(stress_level) == RMax(R(0), RSub(R(50), RMul(stress_level, R(5))))
wellness_score(sleep_hours, stress_level) ==
    Round(RAdd(sleep_score(sleep_hours), stress_score(stress_level)))

\* the recommendations, each named by its band
SleepRecommendation(sleep_hours) ==
    IF RLt(sleep_hours, R(7)) THEN "more_sleep"
    ELSE IF RLt(R(9), sleep_hours) THEN "less_sleep"
    ELSE "good_sleep"

StressRecommendations(stress_level) ==
    IF RLt(R(7), stress_level) THEN <<"reduce_stress">>
    ELSE IF RLt(stress_level, R(3)) THEN <<"good_stress">>
    ELSE <<>>

TrackWellness ==
    \E token \in tokens \cup {NoToken}, data \in WellnessBodies :
        /\ request = NoRequest
        /\ request' = [op |-> "track_wellness", token |-> token, body |-> data]
        /\ UNCHANGED <<call, users, tokens, profiles, plans>>
        /\ UNCHANGED <<mealVars, sideVars>>
        /\ IF token \notin tokens
           THEN response' = Unauthorized
           ELSE
           LET sleep_hours == Get(data, "sleep_hours", R(8))
               stress_level == Get(data, "stress_level", R(5))
           IN  IF ~(IsNumber(sleep_hours) /\ IsNumber(stress_level))
               THEN response' = ServerError("TypeError")
               ELSE response' =
                        [status |-> 200, success |-> TRUE,
                         wellness_score |-> wellness_score(sleep_hours, stress_level),
                         recommendations |->
                            <<SleepRecommendation(sleep_hours)>>
                                \o StressRecommendations(stress_level),
                         breakdown |->
                            [sleep_score |-> Round(sleep_score(sleep_hours)),
                             stress_score |-> Round(stress_score(stress_level))]]

\* the response goes out to the client; the server takes the next request
SendResponse ==
    /\ request # NoRequest
    /\ request' = NoRequest
    /\ response' = NoResponse
    /\ UNCHANGED <<call, users, tokens, profiles, plans>>
    /\ UNCHANGED <<mealVars, sideVars>>

Next ==
    \/ Register
    \/ CalculateNutrition
    \/ TrackWellness
    \/ SendResponse

Spec == Init /\ [][Next]_vars

(***************************************************************************)
(* src/app.py: calculate_sustainability_score, and the scoring function    *)
(* calculate_meal_sustainability of src/backend/app.py.  A meal is a JSON   *)
(* object, its name a character sequence.                                  *)
(***************************************************************************)
MaxMealList == 3

\* keyword in meal_name
Contains(meal_name, keyword) ==
    \E i \in 0..(Len(meal_name) - Len(keyword)) :
        SubSeq(meal_name, i + 1, i + Len(keyword)) = keyword

plant_based_keywords ==
    { <<"v", "e", "g", "e", "t", "a", "b", "l", "e">>,
      <<"f", "r", "u", "i", "t">>,
      <<"g", "r", "a", "i", "n">>,
      <<"l", "e", "g", "u", "m", "e">>,
      <<"q", "u", "i", "n", "o", "a">>,
      <<"s", "a", "l", "a", "d">>,
      <<"t", "o", "f", "u">> }

sustainable_keywords ==
    { <<"l", "o", "c", "a", "l">>,
      <<"o", "r", "g", "a", "n", "i", "c">>,
      <<"s", "e", "a", "s", "o", "n", "a", "l">>,
      <<"p", "l", "a", "n", "t">> }

\* the names the requests choose from: plant-based only after lower(),
\* sustainable only after lower(), sustainable by the "plant" in it, both,
\* neither
MealNames ==
    { <<"Q", "u", "i", "n", "o", "a">>,
      <<"L", "O", "C", "A", "L">>,
      <<"E", "g", "g", "p", "l", "a", "n", "t">>,
      <<"o", "r", "g", "a", "n", "i", "c", " ", "s", "a", "l", "a", "d">>,
      <<"c", "h", "i", "c", "k", "e", "n">> }

\* a meal with one of the names, or without the key
SustainabilityMeals == {[name |-> n] : n \in MealNames} \cup {<<>>}

MealLists == UNION {[1..n -> SustainabilityMeals] : n \in 0..MaxMealList}

SustainabilityBodies == {[meals |-> l] : l \in MealLists} \cup {<<>>}

\* meal.get('name', '').lower()
MealNameLower(meal) == Lower(IF "name" \in DOMAIN meal THEN meal.name ELSE <<>>)

plant_based_count(meals) ==
    Cardinality({i \in 1..Len(meals) :
        \E keyword \in plant_based_keywords : Contains(MealNameLower(meals[i]), keyword)})

sustainable_count(meals) ==
    Cardinality({i \in 1..Len(meals) :
        \E keyword \in sustainable_keywords : Contains(MealNameLower(meals[i]), keyword)})

\* the score summed over the meals instead of taken as a ratio of them
sustainability_score_sum(meals) ==
    Round(RAdd(RMul(R(plant_based_count(meals)), R(60)),
               RMul(R(sustainable_count(meals)), R(40))))

\* the score with the two weights exchanged
sustainability_score_swapped(meals) ==
    LET total_meals == Len(meals)
        plant_score == RMul(Rat(plant_based_count(meals), total_meals), R(40))
        sustainable_score == RMul(Rat(sustainable_count(meals), total_meals), R(60))
    IN  Round(RAdd(plant_score, sustainable_score))

\* total_meals > 0
sustainability_score(meals) ==
    LET total_meals == Len(meals)
        plant_score == RMul(Rat(plant_based_count(meals), total_meals), R(60))
        sustainable_score == RMul(Rat(sustainable_count(meals), total_meals), R(40))
    IN  Round(RAdd(plant_score, sustainable_score))

\* the carbon footprint growing with the score
carbon_footprint_rising(score) ==
    Round1(RMax(Rat(5, 10), RAdd(Rat(5, 10), RMul(R(score), Rat(2, 100)))))

carbon_footprint(score) ==
    Round1(RMax(Rat(5, 10), RSub(Rat(25, 10), RMul(R(score), Rat(2, 100)))))

water_usage(score) == Round(RMax(R(200), RSub(R(1000), RMul(R(score), R(8)))))

\* the recommendations, named by their band
SustainabilityRecommendations(score) ==
    IF score < 40 THEN "more_plants"
    ELSE IF score < 70 THEN "good_progress"
    ELSE "excellent"

CalculateSustainabilityScore ==
    \E data \in SustainabilityBodies :
        /\ request = NoRequest
        /\ request' = [op |-> "calculate_sustainability_score", token |-> NoToken,
                       body |-> data]
        /\ UNCHANGED <<call, users, tokens, profiles, plans>>
        /\ UNCHANGED <<mealVars, sideVars>>
        /\ LET meals == IF "meals" \in DOMAIN data THEN data.meals ELSE <<>>
               total_meals == Len(meals)
           IN  IF total_meals = 0
               THEN response' = [status |-> 400, success |-> FALSE,
                                 message |-> "No meals provided"]
               ELSE response' =
                    [status |-> 200, success |-> TRUE,
                     sustainability_score |-> sustainability_score(meals),
                     carbon_footprint |-> carbon_footprint(sustainability_score(meals)),
                     water_usage |-> water_usage(sustainability_score(meals)),
                     recommendations |->
                        SustainabilityRecommendations(sustainability_score(meals)),
                     breakdown |->
                        [plant_based_meals |-> plant_based_count(meals),
                         total_meals |-> total_meals,
                         plant_percentage |->
                            Round(RMul(Rat(plant_based_count(meals), total_meals),
                                       R(100)))]]

backend_plant_keywords ==
    { <<"v", "e", "g", "e", "t", "a", "b", "l", "e">>,
      <<"f", "r", "u", "i", "t">>,
      <<"q", "u", "i", "n", "o", "a">>,
      <<"l", "e", "g", "u", "m", "e">>,
      <<"b", "e", "a", "n">> }

\* src/backend/app.py: plant_based_score / total_meals * 100, 0 for no meal
calculate_meal_sustainability(meals) ==
    LET total_meals == Len(meals)
        plant_based_score ==
            Cardinality({i \in 1..total_meals :
                \E ingredient \in backend_plant_keywords :
                    Contains(MealNameLower(meals[i]), ingredient)})
        score == IF total_meals > 0
                 THEN RMul(Rat(plant_based_score, total_meals), R(100))
                 ELSE R(0)
    IN  Returned([score |-> Round(score),
                  carbon_kg |-> Round1(RSub(Rat(25, 10), RMul(score, Rat(2, 100)))),
                  water_liters |-> Round(RSub(R(1000), RMul(score, R(5)))),
                  recommendations |-> IF RLt(score, R(70)) THEN "more_plants"
                                      ELSE "excellent"])

CallMealSustainability ==
    /\ call = NoCall
    /\ request = NoRequest
    /\ UNCHANGED apiVars
    /\ \E meals \in MealLists :
        call' = [op |-> "calculate_meal_sustainability", args |-> [meals |-> meals],
                 out |-> calculate_meal_sustainability(meals)]

\* the endpoint of src/app.py, asked while no function call is under way
SustainabilityRequest == call = NoCall /\ CalculateSustainabilityScore

SustainabilityInit == Init

SustainabilityNext ==
    \/ SustainabilityRequest
    \/ CallMealSustainability
    \/ SendResponse
    \/ ReturnToCaller

SustainabilitySpec == SustainabilityInit /\ [][SustainabilityNext]_vars

(***************************************************************************)
(* src/app.py: login, log_meal, get_todays_meals.  The clock is the UTC    *)
(* date, counted in days.                                                  *)
(***************************************************************************)
MaxMealLogs == 3
MaxDay == 1

\* JSON null, stored as SQL NULL
None == [none |-> TRUE]

\* check_password_hash(pwhash, password)
check_password_hash(pwhash, password) == pwhash = generate_password_hash(password)

LoginBodies ==
    LET full == [email : {"a@x.org", "b@x.org", "c@x.org"}, password : {"pw1", "pw2"}]
    IN  full \cup {Without(b, "password") : b \in full}
             \cup {Without(b, "email") : b \in full}

InvalidCredentials ==
    [status |-> 401, success |-> FALSE, message |-> "Invalid credentials"]

\* a login that looks only for the account, not at the password
PasswordAccepted(user, data) == TRUE

\* user.check_password(data['password'])
PasswordChecked(user, data) == check_password_hash(user.password_hash, data.password)

Login ==
    \E data \in LoginBodies :
        /\ request = NoRequest
        /\ request' = [op |-> "login", token |-> NoToken, body |-> data]
        /\ UNCHANGED <<call, users, profiles, plans>>
        /\ UNCHANGED <<mealVars, sideVars>>
        /\ IF ~Has(data, "email")
           THEN response' = ServerError("email") /\ UNCHANGED tokens
           ELSE IF FirstUserByEmail(data.email) = 0
           THEN response' = InvalidCredentials /\ UNCHANGED tokens
           ELSE IF ~Has(data, "password")
           THEN response' = ServerError("password") /\ UNCHANGED tokens
           ELSE LET user == users[FirstUserByEmail(data.email)]
                IN  IF PasswordChecked(user, data)
                    THEN /\ tokens' = tokens \cup {user.id}
                         /\ response' =
                                [status |-> 200, success |-> TRUE,
                                 message |-> "Login successful",
                                 user |-> [id |-> user.id, name |-> user.name,
                                           email |-> user.email,
                                           is_premium |-> user.is_premium],
                                 access_token |-> user.id]
                    ELSE response' = InvalidCredentials /\ UNCHANGED tokens

\* the Achievement rows init_sample_data creates
achievements ==
    {"Daily Meal Master", "Hydration Hero", "Weekly Warrior", "Protein Power",
     "Veggie Champion"}

MealBodies ==
    { <<>>,
      [meal_name |-> "Lunch", calories |-> R(400), protein |-> R(25),
       meal_type |-> "lunch"],
      [meal_name |-> "Shake", calories |-> None, protein |-> Rat(61, 2),
       carbs |-> R(3)] }

\* the meals of the day, whoever logged them
MealsOfEveryone(table, user_id, day) ==
    SelectSeq(table, LAMBDA meal : meal.logged_at = day)

\* the rows of the user logged on the day, in id order
MealsOn(table, user_id, day) ==
    SelectSeq(table, LAMBDA meal : meal.user_id = user_id /\ meal.logged_at = day)

\* db.session.add(meal); db.session.commit(), overwriting the user's latest
\* row instead of adding one
AddMealReplacing(table, meal) ==
    IF \E i \in 1..Len(table) : table[i].user_id = meal.user_id
    THEN LET last == CHOOSE i \in 1..Len(table) :
                        /\ table[i].user_id = meal.user_id
                        /\ \A j \in (i + 1)..Len(table) : table[j].user_id # meal.user_id
         IN  [table EXCEPT ![last] = [meal EXCEPT !.id = table[last].id]]
    ELSE Append(table, meal)

\* db.session.add(meal); db.session.commit()
AddMeal(table, meal) == Append(table, meal)

\* check_meal_achievements(user_id), the meal already committed
check_meal_achievements(table, user_id) ==
    IF /\ Len(MealsOn(table, user_id, clock)) >= 3
       /\ ~\E i \in 1..Len(user_achievements) :
            /\ user_achievements[i].user_id = user_id
            /\ user_achievements[i].achievement = "Daily Meal Master"
            /\ user_achievements[i].earned_at = clock
       /\ "Daily Meal Master" \in achievements
    THEN Append(user_achievements,
                [id |-> Len(user_achievements) + 1, user_id |-> user_id,
                 achievement |-> "Daily Meal Master", earned_at |-> clock])
    ELSE user_achievements

LogMeal ==
    \E token \in tokens \cup {NoToken}, data \in MealBodies :
        /\ request = NoRequest
        /\ request' = [op |-> "log_meal", token |-> token, body |-> data]
        /\ UNCHANGED <<call, users, tokens, profiles, plans, clock>>
        /\ UNCHANGED sideVars
        /\ IF token \notin tokens
           THEN response' = Unauthorized /\ UNCHANGED <<meal_logs, user_achievements>>
           ELSE
           LET meal == [id |-> Len(meal_logs) + 1, user_id |-> token,
                        meal_name |-> Get(data, "meal_name", "Unknown"),
                        calories |-> Get(data, "calories", R(0)),
                        protein |-> Get(data, "protein", R(0)),
                        carbs |-> Get(data, "carbs", R(0)),
                        fat |-> Get(data, "fat", R(0)),
                        meal_type |-> Get(data, "meal_type", "snack"),
                        logged_at |-> clock]
           IN  /\ Len(meal_logs) < MaxMealLogs
               /\ meal_logs' = AddMeal(meal_logs, meal)
               /\ user_achievements' =
                    check_meal_achievements(AddMeal(meal_logs, meal), token)
               /\ response' = [status |-> 200, success |-> TRUE,
                               message |-> "Meal logged successfully",
                               meal_id |-> meal.id]

\* x or 0
OrZero(x) == IF x = None THEN R(0) ELSE x

RECURSIVE SumCalories(_)
SumCalories(meals) ==
    IF meals = <<>> THEN R(0)
    ELSE RAdd(OrZero(Head(meals).calories), SumCalories(Tail(meals)))

RECURSIVE SumProtein(_)
SumProtein(meals) ==
    IF meals = <<>> THEN R(0)
    ELSE RAdd(OrZero(Head(meals).protein), SumProtein(Tail(meals)))

GetTodaysMeals ==
    \E token \in tokens \cup {NoToken} :
        /\ request = NoRequest
        /\ request' = [op |-> "get_todays_meals", token |-> token, body |-> <<>>]
        /\ UNCHANGED <<call, users, tokens, profiles, plans>>
        /\ UNCHANGED <<mealVars, sideVars>>
        /\ IF token \notin tokens
           THEN response' = Unauthorized
           ELSE
           LET meals == MealsOn(meal_logs, token, clock)
           IN  response' =
                [status |-> 200, success |-> TRUE,
                 meals |-> [i \in 1..Len(meals) |->
                                [id |-> meals[i].id, name |-> meals[i].meal_name,
                                 calories |-> meals[i].calories,
                                 protein |-> meals[i].protein,
                                 type |-> meals[i].meal_type,
                                 time |-> meals[i].logged_at]],
                 totals |-> [calories |-> SumCalories(meals),
                             protein |-> SumProtein(meals),
                             meal_count |-> Len(meals)]]

\* midnight UTC passes
AdvanceClock ==
    /\ request = NoRequest
    /\ clock < MaxDay
    /\ clock' = clock + 1
    /\ UNCHANGED <<call, users, tokens, profiles, plans, request, response,
                   meal_logs, user_achievements>>
    /\ UNCHANGED sideVars

\* src/production_backend_fixed.py keeps the same MealLog table; get_stats
\* reads it as get_todays_meals does, and counts the user's rows of all days
RECURSIVE SumNutrient(_, _)
SumNutrient(meals, nutrient) ==
    IF meals = <<>> THEN R(0)
    ELSE RAdd(OrZero(Head(meals)[nutrient]), SumNutrient(Tail(meals), nutrient))

\* MealLog.query.filter_by(user_id=user_id).count()
total_meals(table, user_id) ==
    Len(SelectSeq(table, LAMBDA meal : meal.user_id = user_id))

GetStats ==
    \E token \in tokens \cup {NoToken} :
        /\ request = NoRequest
        /\ request' = [op |-> "get_stats", token |-> token, body |-> <<>>]
        /\ UNCHANGED <<call, users, tokens, profiles, plans>>
        /\ UNCHANGED <<mealVars, sideVars>>
        /\ IF token \notin tokens
           THEN response' = Unauthorized
           ELSE
           LET today_meals == MealsOn(meal_logs, token, clock)
           IN  response' =
                [status |-> 200,
                 today |-> [calories |-> SumNutrient(today_meals, "calories"),
                            protein |-> SumNutrient(today_meals, "protein"),
                            carbs |-> SumNutrient(today_meals, "carbs"),
                            fat |-> SumNutrient(today_meals, "fat"),
                            meal_count |-> Len(today_meals)],
                 total_meals |-> total_meals(meal_logs, token)]

AccountInit == Init

AccountNext ==
    \/ Register
    \/ Login
    \/ LogMeal
    \/ GetTodaysMeals
    \/ GetStats
    \/ AdvanceClock
    \/ SendResponse

AccountSpec == AccountInit /\ [][AccountNext]_vars

(***************************************************************************)
(* src/app.py: the other two handlers behind @jwt_required(),              *)
(* generate_grocery_list and upload_image, and the six of them together.   *)
(***************************************************************************)
MaxUploads == 1
MaxProtectedRows == 3

\* a request that passes no check of the token
TokenNotRequired(token) == TRUE

\* @jwt_required(): the token is one create_access_token issued; a missing,
\* expired or malformed one is answered 401 by the loaders of lines 1201-1207
\* and the library's default for a missing header
ValidToken(token) == token \in tokens

GroceryBodies == { <<>>, [days |-> 3] }

\* the categories of the list; no handler of src/app.py ever stores
\* dietary_restrictions, so the vegan and gluten-free branches see none
GroceryCategories(dietary_restrictions) ==
    LET base == {"proteins", "vegetables", "fruits", "grains", "dairy", "pantry"}
    IN  IF "vegan" \in dietary_restrictions
        THEN (base \ {"dairy"}) \cup {"plant_milk"}
        ELSE base

GenerateGroceryList ==
    \E token \in tokens \cup {NoToken}, data \in GroceryBodies,
       low \in {55, 85}, high \in {85, 120} :
        /\ request = NoRequest
        /\ request' = [op |-> "generate_grocery_list", token |-> token, body |-> data]
        /\ UNCHANGED <<call, users, tokens, profiles, plans>>
        /\ UNCHANGED <<mealVars, sideVars>>
        /\ IF ~ValidToken(token)
           THEN response' = Unauthorized
           ELSE response' =
                    [status |-> 200, success |-> TRUE,
                     grocery_list |->
                        [categories |-> GroceryCategories({}),
                         estimated_cost |-> <<low, high>>,
                         days |-> Get(data, "days", 7)]]

\* request.files: no file, an empty filename, and names with and without an
\* allowed extension
UploadFiles ==
    { <<>>, [image |-> <<>>], [image |-> <<"meal">>],
      [image |-> <<"notes", "txt">>], [image |-> <<"meal", "PNG">>] }

allowed_extensions == {"png", "jpg", "jpeg", "webp", "svg"}

\* filename.rsplit('.', 1)[1].lower(), the name given by its dot-separated parts
FileExtension(filename) ==
    LET last == filename[Len(filename)]
    IN  IF last = "PNG" THEN "png" ELSE last

UploadImage ==
    \E token \in tokens \cup {NoToken}, files \in UploadFiles, saved \in BOOLEAN :
        /\ request = NoRequest
        /\ request' = [op |-> "upload_image", token |-> token, body |-> files]
        /\ UNCHANGED <<call, users, tokens, profiles, plans, workers>>
        /\ UNCHANGED mealVars
        /\ IF ~ValidToken(token)
           THEN response' = Unauthorized /\ UNCHANGED uploads
           ELSE IF ~Has(files, "image")
           THEN /\ response' = [status |-> 400, success |-> FALSE,
                                message |-> "No image file provided"]
                /\ UNCHANGED uploads
           ELSE IF files.image = <<>>
           THEN /\ response' = [status |-> 400, success |-> FALSE,
                                message |-> "No file selected"]
                /\ UNCHANGED uploads
           ELSE IF ~(Len(files.image) > 1
                        /\ FileExtension(files.image) \in allowed_extensions)
           THEN /\ response' = [status |-> 400, success |-> FALSE,
                                message |-> "Invalid file type"]
                /\ UNCHANGED uploads
           ELSE IF ~saved
           THEN \* file.save raises: the directory is missing or not writable
                /\ response' = ServerError("OSError")
                /\ UNCHANGED uploads
           ELSE LET unique_filename ==
                        <<Cardinality(uploads) + 1, FileExtension(files.image)>>
                IN  /\ Cardinality(uploads) < MaxUploads
                    /\ uploads' = uploads \cup {unique_filename}
                    /\ response' = [status |-> 200, success |-> TRUE,
                                    message |-> "Image uploaded successfully",
                                    filename |-> unique_filename]

\* the users, plans and meals stored
ProtectedRows == Len(users) + Len(plans) + Len(meal_logs)

\* the handlers that write rows, while the tables are short
ProtectedRegister == Register /\ ProtectedRows' <= MaxProtectedRows
ProtectedCalculateNutrition == CalculateNutrition /\ ProtectedRows' <= MaxProtectedRows
ProtectedLogMeal == LogMeal /\ ProtectedRows' <= MaxProtectedRows
\* the wellness requests that give both values or neither
ProtectedTrackWellness ==
    /\ TrackWellness
    /\ request'.body \in {<<>>, [sleep_hours |-> R(6), stress_level |-> R(8)]}

ProtectedNext ==
    \/ ProtectedRegister
    \/ ProtectedCalculateNutrition
    \/ ProtectedLogMeal
    \/ GetTodaysMeals
    \/ ProtectedTrackWellness
    \/ GenerateGroceryList
    \/ UploadImage
    \/ SendResponse

ProtectedSpec == Init /\ [][ProtectedNext]_vars

(***************************************************************************)
(* src/app.py: NutritionCalculator called from several threads at once.    *)
(* The three functions are static methods; what a call reads is its own    *)
(* parameters and locals, held in the frame of the calling thread.         *)
(***************************************************************************)
EngineCalls ==
    {[op |-> "calculate_bmr",
      args |-> [weight |-> weight, height |-> R(165), age |-> R(25),
                gender |-> gender]] :
        weight \in {R(60), R(70)}, gender \in {StrMale, <<"f","e","m","a","l","e">>}}
    \cup {[op |-> "calculate_tdee",
           args |-> [bmr |-> Rat(5381, 4), activity_level |-> activity_level]] :
            activity_level \in {"moderate", "very"}}
    \cup {[op |-> "calculate_macros",
           args |-> [tdee |-> R(2000), weight |-> R(60), goal |-> goal]] :
            goal \in {"lose", "gain", "maintain"}}

\* a frame every thread would share: the one the first thread has filled
SharedFrame(w) == IF workers[1] # Idle THEN workers[1] ELSE workers[w]

\* the frame of the call thread w is in: its parameters
OwnFrame(w) == workers[w]

\* the body of the function the frame belongs to, run on the frame's values
RunFrame(frame) ==
    IF frame.op = "calculate_bmr"
    THEN calculate_bmr(frame.args.weight, frame.args.height, frame.args.age,
                       frame.args.gender)
    ELSE IF frame.op = "calculate_tdee"
    THEN calculate_tdee(frame.args.bmr, frame.args.activity_level)
    ELSE calculate_macros(frame.args.tdee, frame.args.weight, frame.args.goal)

ThreadCalls(w) ==
    /\ workers[w] = Idle
    /\ \E c \in EngineCalls :
        workers' = [workers EXCEPT ![w] = [pc |-> "called", op |-> c.op,
                                           args |-> c.args]]
    /\ UNCHANGED <<call, users, tokens, profiles, plans, request, response,
                   mealVars, uploads>>

ThreadComputes(w) ==
    /\ workers[w].pc = "called"
    /\ workers' = [workers EXCEPT ![w] =
                      [pc |-> "returned", op |-> workers[w].op,
                       args |-> workers[w].args, out |-> RunFrame(OwnFrame(w))]]
    /\ UNCHANGED <<call, users, tokens, profiles, plans, request, response,
                   mealVars, uploads>>

ThreadReturns(w) ==
    /\ workers[w].pc = "returned"
    /\ workers' = [workers EXCEPT ![w] = Idle]
    /\ UNCHANGED <<call, users, tokens, profiles, plans, request, response,
                   mealVars, uploads>>

ConcurrentEngineNext ==
    \E w \in Threads : ThreadCalls(w) \/ ThreadComputes(w) \/ ThreadReturns(w)

ConcurrentEngineSpec == Init /\ [][ConcurrentEngineNext]_vars

(***************************************************************************)
(* src/backend/app.py: generate_wellness_recommendations and               *)
(* calculate_wellness_score, next to track_wellness of src/app.py.         *)
(***************************************************************************)
\* three independent tests, each appending the recommendation of its type
generate_wellness_recommendations(sleep_hours, stress_level) ==
    (IF RLt(sleep_hours, R(7)) THEN <<"sleep">> ELSE <<>>)
        \o (IF RLt(R(7), stress_level) THEN <<"stress">> ELSE <<>>)
        \o (IF RLe(R(7), sleep_hours) /\ RLe(stress_level, R(5))
            THEN <<"great">> ELSE <<>>)

\* min(100, sleep_hours / 8 * 50) + max(0, 50 - stress_level * 5), rounded;
\* the same two lines are in src/backend_production.py:399-401 and
\* src/simple_app.py:225-227
calculate_wellness_score(sleep_hours, stress_level) ==
    Round(RAdd(RMin(R(100), RMul(RDiv(sleep_hours, R(8)), R(50))),
               RMax(R(0), RSub(R(50), RMul(stress_level, R(5))))))

WellnessArgs ==
    [sleep_hours : {R(h) : h \in -1..MaxSleep} \cup {Rat(15, 2)},
     stress_level : {R(l) : l \in -1..MaxStress}]

CallGenerateWellnessRecommendations ==
    /\ call = NoCall
    /\ request = NoRequest
    /\ UNCHANGED apiVars
    /\ \E args \in WellnessArgs :
        call' = [op |-> "generate_wellness_recommendations", args |-> args,
                 out |-> generate_wellness_recommendations(args.sleep_hours,
                                                           args.stress_level)]

CallCalculateWellnessScore ==
    /\ call = NoCall
    /\ request = NoRequest
    /\ UNCHANGED apiVars
    /\ \E args \in WellnessArgs :
        call' = [op |-> "calculate_wellness_score", args |-> args,
                 out |-> calculate_wellness_score(args.sleep_hours,
                                                  args.stress_level)]

\* the endpoint of src/app.py, asked while no function call is under way
WellnessRequest == call = NoCall /\ TrackWellness

WellnessNext ==
    \/ Register
    \/ WellnessRequest
    \/ CallGenerateWellnessRecommendations
    \/ CallCalculateWellnessScore
    \/ SendResponse
    \/ ReturnToCaller

WellnessSpec == Init /\ [][WellnessNext]_vars

(***************************************************************************)
(* src/app.py: calculate_donation_impact.  No token is asked for and       *)
(* nothing is stored.                                                      *)
(***************************************************************************)
MaxDonationHalves == 60

\* amounts in half dollars, from negative ones on; a body without an amount
DonationBodies ==
    LET full == [amount : {Rat(k, 2) : k \in -4..MaxDonationHalves} \cup {NotANumber},
                 currency : {"USD"}]
    IN  full \cup {<<>>}

\* int(amount / 2.5)
meals_provided(amount) == Trunc(RDiv(amount, Rat(5, 2)))

\* max(1, int(meals_provided / 3))
people_helped(amount) ==
    LET persons == Trunc(Rat(meals_provided(amount), 3))
    IN  IF persons > 1 THEN persons ELSE 1

CalculateDonationImpact ==
    \E data \in DonationBodies, selected_message \in 1..3 :
        /\ request = NoRequest
        /\ request' = [op |-> "calculate_donation_impact", token |-> NoToken,
                       body |-> data]
        /\ UNCHANGED <<call, users, tokens, profiles, plans>>
        /\ UNCHANGED <<mealVars, sideVars>>
        /\ LET amount == Get(data, "amount", R(0))
           IN  IF ~IsNumber(amount)
               THEN response' = ServerError("TypeError")
               ELSE IF RLe(amount, R(0))
               THEN response' = [status |-> 400, success |-> FALSE,
                                 message |-> "Invalid donation amount"]
               ELSE response' =
                        [status |-> 200, success |-> TRUE,
                         impact_message |->
                            IF selected_message = 2
                            THEN <<"people", people_helped(amount)>>
                            ELSE <<"meals", selected_message, amount,
                                   meals_provided(amount)>>,
                         breakdown |->
                            [meals_provided |-> meals_provided(amount),
                             people_helped |-> people_helped(amount),
                             impact_duration |-> "1 day"]]

DonationNext ==
    \/ CalculateDonationImpact
    \/ SendResponse

DonationSpec == Init /\ [][DonationNext]_vars

(***************************************************************************)
(* src/app.py: register served by several threads.  Each thread has its    *)
(* own database session; what it read is in its locals until it commits.   *)
(***************************************************************************)
\* the response is sent; the thread takes the next request
ThreadResponds(w) ==
    /\ workers[w].pc = "respond"
    /\ workers' = [workers EXCEPT ![w] = Idle]
    /\ UNCHANGED <<call, users, tokens, profiles, plans, request, response,
                   mealVars, uploads>>

\* lines 376-383: the validation and the query for the email
RegisterQueries(w) ==
    \E data \in RegisterBodies :
        /\ workers[w] = Idle
        /\ workers' = [workers EXCEPT ![w] =
            IF ~(Has(data, "name") /\ Has(data, "email") /\ Has(data, "password"))
            THEN [pc |-> "respond", op |-> "register", body |-> data,
                  response |-> [status |-> 400, success |-> FALSE,
                                message |-> "Missing required fields"]]
            ELSE IF FirstUserByEmail(data.email) # 0
            THEN [pc |-> "respond", op |-> "register", body |-> data,
                  response |-> [status |-> 409, success |-> FALSE,
                                message |-> "Email already registered"]]
            ELSE [pc |-> "commit", op |-> "register", body |-> data]]
        /\ UNCHANGED <<call, users, tokens, profiles, plans, request, response,
                       mealVars, uploads>>

\* lines 385-407: the INSERT.  The email column is unique=True: a row with
\* the email committed in between makes the commit raise IntegrityError,
\* which the handler's except turns into a 500
RegisterCommits(w) ==
    /\ workers[w].pc = "commit"
    /\ workers[w].op = "register"
    /\ UNCHANGED <<call, profiles, plans, request, response, mealVars, uploads>>
    /\ LET data == workers[w].body
       IN  IF FirstUserByEmail(data.email) # 0
           THEN /\ workers' = [workers EXCEPT ![w] =
                    [pc |-> "respond", op |-> "register", body |-> data,
                     response |-> ServerError("IntegrityError")]]
                /\ UNCHANGED <<users, tokens>>
           ELSE /\ Len(users) < MaxUsers
                /\ LET user == [id |-> Len(users) + 1, name |-> data.name,
                                email |-> data.email,
                                password_hash |-> generate_password_hash(data.password),
                                is_premium |-> FALSE]
                   IN  /\ users' = Append(users, user)
                       /\ tokens' = tokens \cup {user.id}
                       /\ workers' = [workers EXCEPT ![w] =
                            [pc |-> "respond", op |-> "register", body |-> data,
                             response |->
                                [status |-> 201, success |-> TRUE,
                                 message |-> "User registered successfully",
                                 user |-> [id |-> user.id, name |-> user.name,
                                           email |-> user.email],
                                 access_token |-> user.id]]]

RegisterRaceNext ==
    \E w \in Threads : RegisterQueries(w) \/ RegisterCommits(w) \/ ThreadResponds(w)

RegisterRaceSpec == Init /\ [][RegisterRaceNext]_vars

(***************************************************************************)
(* src/app.py: log_meal served by several threads.  The meal is committed  *)
(* first; check_meal_achievements then runs its queries one by one.        *)
(***************************************************************************)
\* lines 556-570: the MealLog row is added and committed
LogMealInserts(w) ==
    \* the bodies sent: the empty one and the one with every value a number
    \E token \in tokens \cup {NoToken},
       data \in {body \in MealBodies : ~Has(body, "carbs")} :
        /\ workers[w] = Idle
        /\ UNCHANGED <<call, users, tokens, profiles, plans, request, response,
                       user_achievements, clock, uploads>>
        /\ IF ~ValidToken(token)
           THEN /\ workers' = [workers EXCEPT ![w] =
                    [pc |-> "respond", op |-> "log_meal", user_id |-> token,
                     response |-> Unauthorized]]
                /\ UNCHANGED meal_logs
           ELSE
           LET meal == [id |-> Len(meal_logs) + 1, user_id |-> token,
                        meal_name |-> Get(data, "meal_name", "Unknown"),
                        calories |-> Get(data, "calories", R(0)),
                        protein |-> Get(data, "protein", R(0)),
                        carbs |-> Get(data, "carbs", R(0)),
                        fat |-> Get(data, "fat", R(0)),
                        meal_type |-> Get(data, "meal_type", "snack"),
                        logged_at |-> clock]
           IN  /\ Len(meal_logs) < MaxMealLogs
               /\ meal_logs' = AddMeal(meal_logs, meal)
               /\ workers' = [workers EXCEPT ![w] =
                    [pc |-> "count", op |-> "log_meal", user_id |-> token,
                     meal_id |-> meal.id]]

\* the answer of log_meal once check_meal_achievements is over
MealLogged(w, today, meals_today, failed) ==
    [pc |-> "respond", op |-> "log_meal", user_id |-> workers[w].user_id,
     meal_id |-> workers[w].meal_id, today |-> today,
     meals_today |-> meals_today, failed |-> failed,
     response |-> [status |-> 200, success |-> TRUE,
                   message |-> "Meal logged successfully",
                   meal_id |-> workers[w].meal_id]]

\* lines 1139-1146: today, and the count of the user's meals of today
CountMealsToday(w) ==
    /\ workers[w].pc = "count"
    /\ UNCHANGED <<call, users, tokens, profiles, plans, request, response,
                   mealVars, uploads>>
    /\ LET today == clock
           meals_today == Len(MealsOn(meal_logs, workers[w].user_id, today))
       IN  workers' = [workers EXCEPT ![w] =
                IF meals_today >= 3
                THEN [pc |-> "existing", op |-> "log_meal",
                      user_id |-> workers[w].user_id,
                      meal_id |-> workers[w].meal_id, today |-> today,
                      meals_today |-> meals_today]
                ELSE MealLogged(w, today, meals_today, FALSE)]

\* lines 1147-1155: the query for today's achievement of the user, and for
\* the Achievement row
QueryExistingAchievement(w) ==
    /\ workers[w].pc = "existing"
    /\ UNCHANGED <<call, users, tokens, profiles, plans, request, response,
                   mealVars, uploads>>
    /\ LET existing_achievement ==
            \E i \in 1..Len(user_achievements) :
                /\ user_achievements[i].user_id = workers[w].user_id
                /\ user_achievements[i].achievement = "Daily Meal Master"
                /\ user_achievements[i].earned_at = workers[w].today
       IN  workers' = [workers EXCEPT ![w] =
                IF existing_achievement \/ "Daily Meal Master" \notin achievements
                THEN MealLogged(w, workers[w].today, workers[w].meals_today, FALSE)
                ELSE [workers[w] EXCEPT !.pc = "award"]]

\* lines 1156-1162: the UserAchievement row is added and committed;
\* earned_at defaults to the time of the insert
AwardAchievement(w) ==
    /\ workers[w].pc = "award"
    /\ UNCHANGED <<call, users, tokens, profiles, plans, request, response,
                   meal_logs, clock, uploads>>
    /\ user_achievements' =
            Append(user_achievements,
                   [id |-> Len(user_achievements) + 1,
                    user_id |-> workers[w].user_id,
                    achievement |-> "Daily Meal Master", earned_at |-> clock])
    /\ workers' = [workers EXCEPT ![w] =
            MealLogged(w, workers[w].today, workers[w].meals_today, FALSE)]

\* lines 1163-1164: a query or the commit raises (the database is locked);
\* the error is printed and log_meal goes on to its answer
AchievementCheckFails(w) ==
    /\ workers[w].pc \in {"count", "existing", "award"}
    /\ UNCHANGED <<call, users, tokens, profiles, plans, request, response,
                   mealVars, uploads>>
    /\ workers' = [workers EXCEPT ![w] = MealLogged(w, clock, 0, TRUE)]

\* the accounts are made before the first meal is logged
RegisterBeforeMeals ==
    /\ meal_logs = <<>>
    /\ \A w \in Threads : workers[w] = Idle
    /\ Register

\* a thread takes a meal-log request once the registrations are answered
ThreadLogsMeal(w) == request = NoRequest /\ LogMealInserts(w)

MealRaceNext ==
    \/ RegisterBeforeMeals
    \/ SendResponse
    \/ AdvanceClock
    \/ \E w \in Threads :
        \/ ThreadLogsMeal(w)
        \/ CountMealsToday(w)
        \/ QueryExistingAchievement(w)
        \/ AwardAchievement(w)
        \/ AchievementCheckFails(w)
        \/ ThreadResponds(w)

MealRaceSpec == Init /\ [][MealRaceNext]_vars

(***************************************************************************)
(* src/app.py: calculate_nutrition served by several threads.  The profile *)
(* is queried before the plan and the profile are committed.               *)
(***************************************************************************)
\* the first exception the handler's body raises on the body, "none" if none
NutritionError(data) ==
    IF FirstMissing(data, <<"weight", "height", "age", "gender">>) # "none"
    THEN FirstMissing(data, <<"weight", "height", "age", "gender">>)
    ELSE IF calculate_bmr(data.weight, data.height, data.age, data.gender).error
                # "none"
    THEN "TypeError"
    ELSE IF ~Has(data, "activity") THEN "activity"
    ELSE IF data.height.n = 0 THEN "ZeroDivisionError"
    ELSE "none"

\* lines 445-474: the calculation, and the query for the user's profile
NutritionQueries(w) ==
    \* the bodies sent: every field given, the height 165 or 0
    \E token \in tokens \cup {NoToken},
       data \in {body \in NutritionBodies :
                    /\ Has(body, "weight")
                    /\ Has(body, "activity")
                    /\ ~Has(body, "goal")} :
        /\ workers[w] = Idle
        /\ UNCHANGED <<call, users, tokens, profiles, plans, request, response,
                       mealVars, uploads>>
        /\ workers' = [workers EXCEPT ![w] =
            IF ~ValidToken(token)
            THEN [pc |-> "respond", op |-> "calculate_nutrition", user_id |-> token,
                  body |-> data, response |-> Unauthorized]
            ELSE IF NutritionError(data) # "none"
            THEN [pc |-> "respond", op |-> "calculate_nutrition", user_id |-> token,
                  body |-> data, response |-> ServerError(NutritionError(data))]
            ELSE LET mine == RowsOf(profiles, token)
                 IN  [pc |-> "commit", op |-> "calculate_nutrition",
                      user_id |-> token, body |-> data,
                      profile |-> IF mine = {} THEN 0
                                  ELSE CHOOSE i \in mine : \A j \in mine : i <= j]]

\* lines 461-501: the plan is inserted; the profile the query found is
\* updated, or a new one inserted when it found none
NutritionCommits(w) ==
    /\ workers[w].pc = "commit"
    /\ workers[w].op = "calculate_nutrition"
    /\ UNCHANGED <<call, users, tokens, request, response, mealVars, uploads>>
    /\ LET data == workers[w].body
           user_id == workers[w].user_id
           bmr == calculate_bmr(data.weight, data.height, data.age,
                                data.gender).value
           tdee == calculate_tdee(bmr, data.activity)
           height_m == RDiv(data.height, R(100))
           bmi == RDiv(data.weight, RMul(height_m, height_m))
           macros == calculate_macros(tdee, data.weight, "maintain")
           fields == [age |-> data.age, gender |-> data.gender,
                      height |-> data.height, weight |-> data.weight,
                      activity_level |-> data.activity]
           found == workers[w].profile
       IN  /\ Len(plans) < MaxPlans
           /\ plans' = Append(plans,
                    [id |-> Len(plans) + 1, user_id |-> user_id,
                     calories |-> macros.calories, protein |-> macros.protein,
                     carbs |-> macros.carbs, fat |-> macros.fat,
                     water |-> macros.water, bmr |-> bmr, tdee |-> tdee,
                     bmi |-> Round1(bmi)])
           /\ profiles' =
                IF found = 0
                THEN Append(profiles,
                            [id |-> Len(profiles) + 1, user_id |-> user_id] @@ fields)
                ELSE [profiles EXCEPT ![found] =
                        [id |-> profiles[found].id, user_id |-> user_id] @@ fields]
           /\ workers' = [workers EXCEPT ![w] =
                [pc |-> "respond", op |-> "calculate_nutrition",
                 user_id |-> user_id, body |-> data,
                 response |->
                    [status |-> 200, success |-> TRUE,
                     results |-> [bmi |-> Round1(bmi), bmr |-> Round(bmr),
                                  tdee |-> Round(tdee), calories |-> macros.calories,
                                  protein |-> macros.protein, carbs |-> macros.carbs,
                                  fat |-> macros.fat, water |-> macros.water]]]]

\* the accounts are made before the first calculation
RegisterBeforePlans ==
    /\ plans = <<>>
    /\ \A w \in Threads : workers[w] = Idle
    /\ Register

\* a thread takes a calculation once the registrations are answered
ThreadCalculates(w) == request = NoRequest /\ NutritionQueries(w)

NutritionRaceNext ==
    \/ RegisterBeforePlans
    \/ SendResponse
    \/ \E w \in Threads :
        \/ ThreadCalculates(w)
        \/ NutritionCommits(w)
        \/ ThreadResponds(w)

NutritionRaceSpec == Init /\ [][NutritionRaceNext]_vars

(***************************************************************************)
(* The formulas of the specification, written out with integers only       *)
(***************************************************************************)
Positive(x) == IsNumber(x) /\ x.n > 0

\* 10w + 6.25h - 5a + c over the common denominator 4 * w.d * h.d * a.d
Mifflin(w, h, a, c) ==
    Rat(40 * w.n * h.d * a.d + 25 * h.n * w.d * a.d - 20 * a.n * w.d * h.d
            + 4 * c * w.d * h.d * a.d,
        4 * w.d * h.d * a.d)

IsBmrCall == call.op = "calculate_bmr"
IsValuesCall ==
    call.op \in {"backend_calculate_nutrition_values", "netlify_calculate_nutrition_values"}

\* C1: for weight, height and age > 0 and gender "male", calculate_bmr returns
\* exactly 10*weight + 6.25*height - 5*age + 5 (and calculate_nutrition_values
\* of src/backend/app.py reports that value rounded).
C1_MaleBmr ==
    /\ (IsBmrCall /\ call.args.gender = StrMale /\ Positive(call.args.weight)
            /\ Positive(call.args.height) /\ Positive(call.args.age))
        => call.out = Returned(Mifflin(call.args.weight, call.args.height,
                                       call.args.age, 5))
    /\ (call.op = "backend_calculate_nutrition_values" /\ call.args.gender = StrMale
            /\ Positive(call.args.weight) /\ Positive(call.args.height)
            /\ Positive(call.args.age))
        => /\ call.out.error = "none"
           /\ call.out.value.bmr = Round(Mifflin(call.args.weight, call.args.height,
                                                 call.args.age, 5))

C1_Witness ==
    /\ IsBmrCall
    /\ call.args = [weight |-> R(60), height |-> R(175), age |-> R(30),
                    gender |-> StrMale]
    /\ call.out = Returned(Rat(6195, 4))

\* C2: every implementation compares gender without regard to case: any
\* spelling of "male" takes the +5 branch, every other value the -161 branch
\* (checked on the calls with weight, height and age > 0).
C2_CaseInsensitiveEverywhere ==
    LET a == call.args
        c == IF Lower(a.gender) = StrMale THEN 5 ELSE -161
    IN  /\ (IsBmrCall /\ Positive(a.weight) /\ Positive(a.height) /\ Positive(a.age))
            => call.out = Returned(Mifflin(a.weight, a.height, a.age, c))
        /\ (IsValuesCall /\ Positive(a.weight) /\ Positive(a.height) /\ Positive(a.age))
            => /\ call.out.error = "none"
               /\ call.out.value.bmr = Round(Mifflin(a.weight, a.height, a.age, c))

\* C3: calculate_bmr fails whenever weight, height or age is <= 0 and
\* returns a value only when all three are > 0.
C3_NonPositiveRejected ==
    (/\ call.op \in {"calculate_bmr", "production_calculate_bmr"}
     /\ IsNumber(call.args.weight) /\ IsNumber(call.args.height)
     /\ IsNumber(call.args.age)
     /\ ~(Positive(call.args.weight) /\ Positive(call.args.height)
            /\ Positive(call.args.age)))
        => call.out.error # "none"

\* the multiplier the specification's table gives, in thousandths
TableThousandths(level) ==
    CASE level = "sedentary" -> 1200
      [] level = "light" -> 1375
      [] level = "moderate" -> 1550
      [] level = "very" -> 1725
      [] level = "extra" -> 1900
      [] OTHER -> 1200

\* C4: calculate_tdee(bmr, level) is bmr times the table multiplier for the
\* five keys and bmr * 1.2 for every other string.
C4_TdeeTable ==
    call.op = "calculate_tdee"
        => call.out = Rat(call.args.bmr.n * TableThousandths(call.args.activity_level),
                          call.args.bmr.d * 1000)

C4_Witness ==
    /\ call.op = "calculate_tdee"
    /\ call.args = [bmr |-> Rat(5381, 4), activity_level |-> "active"]
    /\ call.out = Rat(16143, 10)

\* C5: calculate_macros takes tdee - 500 for "lose", tdee + 300 for "gain" and
\* tdee for every other goal as the calories it then rounds.
C5_GoalCalories ==
    call.op = "calculate_macros"
        => LET t == call.args.tdee
               shift == IF call.args.goal = "lose" THEN -500
                        ELSE IF call.args.goal = "gain" THEN 300 ELSE 0
           IN  call.out.calories = Round(Rat(t.n + shift * t.d, t.d))

C5_Witness ==
    /\ call.op = "calculate_macros"
    /\ call.args = [tdee |-> Rat(10172, 5), weight |-> R(60), goal |-> "gain"]
    /\ call.out.calories = 2334

\* C6: the protein calculate_macros returns is round(weight * 2.2), whatever
\* tdee and goal are.
C6_ProteinFromWeight ==
    call.op = "calculate_macros"
        => call.out.protein = Round(Rat(22 * call.args.weight.n, 10 * call.args.weight.d))

C6_Witness ==
    /\ call.op = "calculate_macros"
    /\ call.args = [tdee |-> Rat(10172, 5), weight |-> R(60), goal |-> "lose"]
    /\ call.out.protein = 132

\* the calories of a calculate_macros call, from its arguments
CallCalories ==
    LET t == call.args.tdee
        shift == IF call.args.goal = "lose" THEN -500
                 ELSE IF call.args.goal = "gain" THEN 300 ELSE 0
    IN  Rat(t.n + shift * t.d, t.d)

\* (calories - protein*4 - fat*9) / 4 with protein = 2.2 weight and
\* fat = calories/36, that is 3/16 calories - 11/5 weight
CallCarbs ==
    Rat(15 * CallCalories.n * call.args.weight.d
            - 176 * call.args.weight.n * CallCalories.d,
        80 * CallCalories.d * call.args.weight.d)

\* C7 as claimed: whenever protein*4 + fat*9 exceeds calories, the carbs
\* value calculate_macros returns is negative, not zero (checked on the calls
\* with weight > 0).
C7_ReturnedCarbsNegative ==
    (call.op = "calculate_macros" /\ Positive(call.args.weight) /\ CallCarbs.n < 0)
        => call.out.carbs < 0

\* C7 as amended: calculate_macros returns the rounding of the unclamped
\* (calories - protein*4 - fat*9) / 4; when protein*4 + fat*9 exceeds calories
\* the returned carbs is never positive, and it is negative once the excess
\* is more than 2 kcal (exact carbs below -0.5).
C7_CarbsUnclamped ==
    call.op = "calculate_macros"
        => /\ call.out.carbs = Round(CallCarbs)
           /\ CallCarbs.n < 0 => call.out.carbs <= 0
           /\ 2 * CallCarbs.n < -CallCarbs.d => call.out.carbs < 0

C7_Witness ==
    /\ call.op = "calculate_macros"
    /\ call.args = [tdee |-> R(41), weight |-> R(60), goal |-> "maintain"]
    /\ call.out.carbs = -124

\* C9 as claimed: calculate_macros applied to the calories of its own
\* "maintain" result returns the same protein, fat and carbs (checked on the
\* calls with weight > 0).
C9_RoundTripReproduces ==
    (call.op = "macros_round_trip" /\ Positive(call.args.weight))
        => /\ call.out.second.protein = call.out.first.protein
           /\ call.out.second.fat = call.out.first.fat
           /\ call.out.second.carbs = call.out.first.carbs

\* C9 as amended: the second call returns the same calories and protein, and
\* fat and carbs at most 1 away from the first call's; all are the same when
\* tdee is a whole number.
C9_RoundTripWithinOne ==
    call.op = "macros_round_trip"
        => LET first == call.out.first
               second == call.out.second
           IN  /\ second.calories = first.calories
               /\ second.protein = first.protein
               /\ Abs(second.fat - first.fat) <= 1
               /\ Abs(second.carbs - first.carbs) <= 1
               /\ call.args.tdee.d = 1 => second = first

C9_Witness ==
    /\ call.op = "macros_round_trip"
    /\ call.args.tdee.d # 1
    /\ call.out.second.fat # call.out.first.fat
    /\ call.out.second.protein = call.out.first.protein

\* the request of the specification's end-to-end scenario
ScenarioBody ==
    [age |-> R(25), gender |-> <<"f","e","m","a","l","e">>, height |-> R(165),
     weight |-> R(60), activity |-> "moderate"]

ScenarioAnswered ==
    /\ request.op = "calculate_nutrition"
    /\ request.body = ScenarioBody
    /\ response.status = 200

\* C8 as claimed: age 25, female, 165 cm, 60 kg, moderate (goal maintain)
\* yields bmr 1320.75, tdee about 2047.2, calories 2047, protein 132, fat 57,
\* carbs 199, water 2.1 and bmi 22.0.
C8_ScenarioAsClaimed ==
    ScenarioAnswered
        => LET plan == plans[Len(plans)]
               r == response.results
           IN  /\ plan.bmr = Rat(132075, 100)
               /\ RLe(Rat(20471, 10), plan.tdee) /\ RLe(plan.tdee, Rat(20473, 10))
               /\ r.calories = 2047 /\ r.protein = 132 /\ r.fat = 57
               /\ r.carbs = 199 /\ r.water = Rat(21, 10) /\ r.bmi = R(22)

\* C8 as amended: the same input yields bmr 1345.25, tdee 2085.1375,
\* calories 2085, protein 132, fat 58, carbs 259, water 2.1 and bmi 22.0;
\* the response reports bmr and tdee rounded, the stored plan unrounded.
C8_Scenario ==
    ScenarioAnswered
        => LET plan == plans[Len(plans)]
               r == response.results
           IN  /\ plan.bmr = Rat(134525, 100)
               /\ plan.tdee = Rat(20851375, 10000)
               /\ r.bmr = 1345 /\ r.tdee = 2085
               /\ r.calories = 2085 /\ r.protein = 132 /\ r.fat = 58
               /\ r.carbs = 259 /\ r.water = Rat(21, 10) /\ r.bmi = R(22)
               /\ plan.calories = 2085 /\ plan.protein = 132 /\ plan.fat = 58
               /\ plan.carbs = 259 /\ plan.water = Rat(21, 10) /\ plan.bmi = R(22)

C8_Witness ==
    /\ ScenarioAnswered
    /\ response.results.calories = 2085
    /\ plans[Len(plans)].user_id = request.token

WellnessAnswered == request.op = "track_wellness" /\ response.status = 200

\* min(50, (sleep_hours / 8) * 50), sleep_hours taken from the request
ClaimedSleepScore ==
    LET s == IF Has(request.body, "sleep_hours") THEN request.body.sleep_hours ELSE R(8)
    IN  IF 25 * s.n >= 200 * s.d THEN R(50) ELSE Rat(25 * s.n, 4 * s.d)

\* max(0, 50 - stress_level * 5), stress_level taken from the request
ClaimedStressScore ==
    LET t == IF Has(request.body, "stress_level") THEN request.body.stress_level ELSE R(5)
    IN  IF 5 * t.n >= 50 * t.d THEN R(0) ELSE Rat(50 * t.d - 5 * t.n, t.d)

ClaimedWellnessExamples ==
    /\ request.body = [sleep_hours |-> R(8), stress_level |-> R(0)]
        => /\ response.wellness_score = 100
           /\ response.breakdown = [sleep_score |-> 50, stress_score |-> 50]
    /\ request.body = [sleep_hours |-> R(0), stress_level |-> R(10)]
        => /\ response.wellness_score = 0
           /\ response.breakdown = [sleep_score |-> 0, stress_score |-> 0]

\* C10 as claimed: the wellness computation returns sleep_score =
\* min(50, (sleep_hours/8)*50), stress_score = max(0, 50 - stress_level*5) and
\* wellness_score = round(sleep_score + stress_score); (8, 0) gives
\* 100 / 50 / 50 and (0, 10) gives 0 / 0 / 0.
C10_ScoresAsClaimed ==
    WellnessAnswered
        => /\ R(response.breakdown.sleep_score) = ClaimedSleepScore
           /\ R(response.breakdown.stress_score) = ClaimedStressScore
           /\ response.wellness_score =
                Round(RAdd(ClaimedSleepScore, ClaimedStressScore))
           /\ ClaimedWellnessExamples

\* C10 as amended: wellness_score = round(sleep_score + stress_score) of the
\* unrounded scores, and the sleep_score and stress_score returned are those
\* scores rounded to the nearest integer; the two examples are as claimed.
C10_ScoresRounded ==
    WellnessAnswered
        => /\ response.breakdown.sleep_score = Round(ClaimedSleepScore)
           /\ response.breakdown.stress_score = Round(ClaimedStressScore)
           /\ response.wellness_score =
                Round(RAdd(ClaimedSleepScore, ClaimedStressScore))
           /\ ClaimedWellnessExamples

C10_Witness ==
    /\ WellnessAnswered
    /\ request.body = [sleep_hours |-> R(8), stress_level |-> R(0)]
    /\ response.wellness_score = 100
    /\ response.breakdown = [sleep_score |-> 50, stress_score |-> 50]

\* C11: for every sleep_hours and stress_level track_wellness accepts, the
\* wellness_score it returns lies between 0 and 100 inclusive.
C11_WellnessScoreBounded ==
    WellnessAnswered => (0 <= response.wellness_score /\ response.wellness_score <= 100)

SustainabilityAnswered ==
    request.op = "calculate_sustainability_score" /\ response.status = 200

\* the names of MealNames holding a plant-based keyword in any letter case,
\* and those holding a sustainable keyword
PlantBasedNames == {<<"Q", "u", "i", "n", "o", "a">>, <<"o", "r", "g", "a", "n", "i", "c", " ", "s", "a", "l", "a", "d">>}
SustainableNames == {<<"L", "O", "C", "A", "L">>, <<"E", "g", "g", "p", "l", "a", "n", "t">>, <<"o", "r", "g", "a", "n", "i", "c", " ", "s", "a", "l", "a", "d">>}

\* those holding a keyword of src/backend/app.py
BackendPlantNames == {<<"Q", "u", "i", "n", "o", "a">>}

\* the meals of the request whose name is in the set
CountNamed(names) ==
    Cardinality({i \in 1..Len(request.body.meals) :
        /\ "name" \in DOMAIN request.body.meals[i]
        /\ request.body.meals[i].name \in names})

\* C12: for a non-empty meal list, sustainability_score is
\* round((plant_based_count / total_meals) * 60 + (sustainable_count /
\* total_meals) * 40), a meal counting as plant-based when its lower-cased
\* name holds a plant-based keyword, as sustainable when it holds a
\* sustainable keyword, and possibly as both.
C12_SustainabilityScore ==
    SustainabilityAnswered
        => /\ response.sustainability_score =
                Round(Rat(60 * CountNamed(PlantBasedNames)
                            + 40 * CountNamed(SustainableNames),
                          Len(request.body.meals)))
           /\ response.breakdown.plant_based_meals = CountNamed(PlantBasedNames)
           /\ response.breakdown.total_meals = Len(request.body.meals)

C12_Witness ==
    /\ SustainabilityAnswered
    /\ request.body.meals = <<[name |-> <<"o", "r", "g", "a", "n", "i", "c", " ", "s", "a", "l", "a", "d">>], [name |-> <<"c", "h", "i", "c", "k", "e", "n">>], [name |-> <<"Q", "u", "i", "n", "o", "a">>]>>
    /\ response.sustainability_score = 53

\* C13: for every non-empty meal list the sustainability_score returned lies
\* between 0 and 100 inclusive.
C13_SustainabilityScoreBounded ==
    SustainabilityAnswered
        => (0 <= response.sustainability_score /\ response.sustainability_score <= 100)

C13_Witness ==
    /\ SustainabilityAnswered
    /\ Len(request.body.meals) >= 2
    /\ response.sustainability_score = 100

\* C14 as claimed: for every non-empty meal list carbon_footprint is
\* max(0.5, 2.5 - score*0.02) and water_usage is max(200, 1000 - score*8),
\* neither below its floor.
C14_ImpactAsClaimed ==
    SustainabilityAnswered
        => LET score == response.sustainability_score
           IN  /\ response.carbon_footprint =
                    (IF 250 - 2 * score >= 50 THEN Rat(250 - 2 * score, 100)
                     ELSE Rat(5, 10))
               /\ response.water_usage =
                    (IF 1000 - 8 * score >= 200 THEN 1000 - 8 * score ELSE 200)

\* C14 as amended: in src/app.py carbon_footprint is max(0.5, 2.5 -
\* score*0.02) rounded to one decimal and water_usage is max(200, 1000 -
\* score*8); in src/backend/app.py carbon is 2.5 - score*0.02 rounded to one
\* decimal and water is 1000 - score*5 rounded, score being the unrounded
\* plant percentage; in both, carbon >= 0.5 and water >= 200.
C14_ImpactRounded ==
    /\ SustainabilityAnswered
        => LET score == response.sustainability_score
           IN  /\ response.carbon_footprint =
                    (IF 250 - 2 * score >= 50
                     THEN Rat(Round(Rat(250 - 2 * score, 10)), 10)
                     ELSE Rat(5, 10))
               /\ response.water_usage =
                    (IF 1000 - 8 * score >= 200 THEN 1000 - 8 * score ELSE 200)
               /\ RLe(Rat(5, 10), response.carbon_footprint)
               /\ response.water_usage >= 200
    /\ (call.op = "calculate_meal_sustainability" /\ Len(call.args.meals) > 0)
        => LET out == call.out.value
               total == Len(call.args.meals)
               plant == Cardinality({i \in 1..total :
                            /\ "name" \in DOMAIN call.args.meals[i]
                            /\ call.args.meals[i].name \in BackendPlantNames})
           IN  /\ call.out.error = "none"
               /\ out.score = Round(Rat(100 * plant, total))
               /\ out.carbon_kg =
                    Rat(Round(Rat(250 * total - 200 * plant, 10 * total)), 10)
               /\ out.water_liters = Round(Rat(1000 * total - 500 * plant, total))
               /\ RLe(Rat(5, 10), out.carbon_kg)
               /\ out.water_liters >= 200

C14_Witness ==
    /\ SustainabilityAnswered
    /\ response.sustainability_score = 33
    /\ response.carbon_footprint = Rat(18, 10)
    /\ response.water_usage = 736

\* C15: sustainability scoring given zero meals fails with an error outcome
\* (HTTP 400 with success = false at the endpoint) and returns no score, in
\* src/app.py and in calculate_meal_sustainability of src/backend/app.py.
C15_EmptyMealListFails ==
    /\ (request.op = "calculate_sustainability_score"
            /\ ("meals" \notin DOMAIN request.body \/ request.body.meals = <<>>))
        => /\ response.status = 400
           /\ response.success = FALSE
           /\ "sustainability_score" \notin DOMAIN response
    /\ (call.op = "calculate_meal_sustainability" /\ call.args.meals = <<>>)
        => call.out.error # "none"

\* C16: a nutrition-calculate request lacking one of age, gender, height,
\* weight, activity is answered 400 with success = false and an error naming
\* a missing field (checked on the requests of src/app.py that carry a valid
\* token).
C16_MissingFieldRejected ==
    (/\ request.op = "calculate_nutrition"
     /\ request.token \in tokens
     /\ \E field \in {"age", "gender", "height", "weight", "activity"} :
            ~Has(request.body, field))
        => /\ response.status = 400
           /\ response.success = FALSE

TodayAnswered == request.op = "get_todays_meals" /\ response.status = 200

\* the rows of the MealLog table the asking user logged on the current date
MealsOfToday ==
    {i \in 1..Len(meal_logs) :
        meal_logs[i].user_id = request.token /\ meal_logs[i].logged_at = clock}

\* the sum of a nutrient over the rows, a null counted as zero
RECURSIVE NutrientTotal(_, _)
NutrientTotal(rows, nutrient) ==
    IF rows = {} THEN R(0)
    ELSE LET i == CHOOSE j \in rows : TRUE
             x == meal_logs[i][nutrient]
         IN  RAdd(IF x = None THEN R(0) ELSE x, NutrientTotal(rows \ {i}, nutrient))

\* C17: the daily aggregation returns meal_count = the number of the user's
\* meals logged on the current date, calories and protein = their sums with
\* a null counted as zero, and 0 / 0 / 0 with no meal; log_meal stores the
\* nutrients given and 0 for a missing one, under the caller and the date.
C17_DailyTotals ==
    /\ TodayAnswered
        => /\ response.totals.meal_count = Cardinality(MealsOfToday)
           /\ response.totals.calories = NutrientTotal(MealsOfToday, "calories")
           /\ response.totals.protein = NutrientTotal(MealsOfToday, "protein")
           /\ Len(response.meals) = Cardinality(MealsOfToday)
           /\ MealsOfToday = {}
                => response.totals = [calories |-> R(0), protein |-> R(0),
                                      meal_count |-> 0]
    /\ (request.op = "log_meal" /\ response.status = 200)
        => LET meal == meal_logs[Len(meal_logs)]
           IN  /\ meal.id = response.meal_id
               /\ meal.user_id = request.token
               /\ meal.logged_at = clock
               /\ \A nutrient \in {"calories", "protein", "carbs", "fat"} :
                    meal[nutrient] = (IF nutrient \in DOMAIN request.body
                                      THEN request.body[nutrient] ELSE R(0))

C17_Witness ==
    /\ TodayAnswered
    /\ Len(meal_logs) = 3
    /\ response.totals = [calories |-> R(400), protein |-> Rat(111, 2), meal_count |-> 2]

\* C18: a logged meal is immutable: whatever operation runs, every row of
\* the MealLog table stays, with the same name, calories, protein, carbs,
\* fat, meal_type, owner and logged_at.
C18_MealsImmutable ==
    [][/\ Len(meal_logs') >= Len(meal_logs)
       /\ \A i \in 1..Len(meal_logs) : meal_logs'[i] = meal_logs[i]]_vars

C18_Witness ==
    /\ Len(meal_logs) >= 2
    /\ meal_logs[1].logged_at < clock
    /\ meal_logs[1].user_id = meal_logs[2].user_id
    /\ request.op = "log_meal"
    /\ response.status = 200

\* C19: registering with an email that is already registered is answered 409
\* with success = false and "Email already registered" (a request holding
\* name, email and password), issues no access token and leaves the users
\* as they are.
C19_DuplicateEmailRejected ==
    [][(/\ request = NoRequest
        /\ request'.op = "register"
        /\ "email" \in DOMAIN request'.body
        /\ \E i \in 1..Len(users) : users[i].email = request'.body.email)
            => /\ users' = users
               /\ tokens' = tokens
               /\ "access_token" \notin DOMAIN response'
               /\ ({"name", "password"} \subseteq DOMAIN request'.body)
                    => response' = [status |-> 409, success |-> FALSE,
                                    message |-> "Email already registered"]]_vars

C19_Witness ==
    /\ request.op = "register"
    /\ response.status = 409
    /\ Len(users) = 2
    /\ \E i \in 1..Len(users) :
        /\ users[i].email = request.body.email
        /\ users[i].name # request.body.name
        /\ users[i].password_hash # <<"digest", request.body.password>>

LoginAnswered == request.op = "login"

\* an account with the email of the login request whose registered password
\* is the one the request gives
CredentialsMatch ==
    \E i \in 1..Len(users) :
        /\ users[i].email = request.body.email
        /\ users[i].password_hash = <<"digest", request.body.password>>

\* C20: a login giving an email and a password is answered 200 with an
\* access token (for that account) exactly when an account with the email
\* exists and the password is the one it was registered with, and 401
\* "Invalid credentials" without a token otherwise; no other answer of login
\* carries a token; register stores the digest of the password given.
C20_LoginIffCredentials ==
    /\ (LoginAnswered /\ {"email", "password"} \subseteq DOMAIN request.body)
        => IF CredentialsMatch
           THEN /\ response.status = 200
                /\ response.success = TRUE
                /\ response.access_token \in tokens
                /\ \E i \in 1..Len(users) :
                    /\ users[i].id = response.access_token
                    /\ users[i].email = request.body.email
           ELSE response = [status |-> 401, success |-> FALSE,
                            message |-> "Invalid credentials"]
    /\ (LoginAnswered /\ response.status # 200)
        => "access_token" \notin DOMAIN response
    /\ (request.op = "register" /\ response.status = 201)
        => /\ users[Len(users)].email = request.body.email
           /\ users[Len(users)].password_hash = <<"digest", request.body.password>>

C20_Witness ==
    /\ LoginAnswered
    /\ Len(users) = 2
    /\ request.body = [email |-> "b@x.org", password |-> "pw2"]
    /\ response.status = 200
    /\ response.access_token = users[2].id

(***************************************************************************)
(* C21.  A request to a protected endpoint of src/app.py (nutrition        *)
(* calculate, meal log, meals today, wellness, grocery list, image upload) *)
(* that carries no valid access token is answered 401, and it creates and  *)
(* modifies no NutritionPlan, UserProfile, MealLog or UserAchievement.     *)
(***************************************************************************)
ProtectedOps ==
    {"calculate_nutrition", "log_meal", "get_todays_meals", "track_wellness",
     "generate_grocery_list", "upload_image"}

C21_UnauthorizedRejected ==
    [][ (/\ request = NoRequest
         /\ request' # NoRequest
         /\ request'.op \in ProtectedOps
         /\ request'.token \notin tokens)
        => (/\ response'.status = 401
            /\ plans' = plans
            /\ profiles' = profiles
            /\ meal_logs' = meal_logs
            /\ user_achievements' = user_achievements) ]_vars

\* a nutrition request without a token, refused while the tables hold a plan,
\* a profile with another gender than the request's, and a meal
C21_Witness ==
    /\ request # NoRequest
    /\ request.op = "calculate_nutrition"
    /\ request.token = NoToken
    /\ Has(request.body, "gender") /\ Has(request.body, "weight")
    /\ response.status = 401
    /\ Len(plans) = 1
    /\ Len(profiles) = 1
    /\ profiles[1].gender # request.body.gender
    /\ Len(meal_logs) = 1

(***************************************************************************)
(* C22.  calculate_bmr, calculate_tdee and calculate_macros are pure:      *)
(* however the calls of several threads interleave, a step of one call     *)
(* changes nothing but that call's own frame, and the result a call        *)
(* returns is the result of the same call run alone on its arguments.      *)
(***************************************************************************)
\* the result of the call run alone
IsolatedResult(op, args) ==
    IF op = "calculate_bmr"
    THEN calculate_bmr(args.weight, args.height, args.age, args.gender)
    ELSE IF op = "calculate_tdee"
    THEN calculate_tdee(args.bmr, args.activity_level)
    ELSE calculate_macros(args.tdee, args.weight, args.goal)

C22_EngineCallsIsolated ==
    [][ \A w \in Threads :
            workers'[w] # workers[w]
            => /\ \A v \in Threads \ {w} : workers'[v] = workers[v]
               /\ UNCHANGED <<call, users, tokens, profiles, plans, request,
                              response, mealVars, uploads>>
               /\ workers'[w].pc = "called"
                    => workers[w] = Idle
               /\ workers'[w].pc = "returned"
                    => /\ workers'[w].op = workers[w].op
                       /\ workers'[w].args = workers[w].args
                       /\ workers'[w].out =
                            IsolatedResult(workers[w].op, workers[w].args) ]_vars

\* thread 2 has its result while thread 1 is inside another function, called
\* before thread 2 computed
C22_Witness ==
    /\ workers[1].pc = "called"
    /\ workers[1].op = "calculate_macros"
    /\ workers[2].pc = "returned"
    /\ workers[2].op = "calculate_bmr"
    /\ workers[2].args.weight = R(70)
    /\ workers[2].out = Returned(Rat(6445, 4))

(***************************************************************************)
(* C23.  The wellness recommendation list is never empty: whatever         *)
(* sleep_hours and stress_level are, track_wellness of src/app.py and      *)
(* generate_wellness_recommendations of src/backend/app.py each give at    *)
(* least one recommendation.                                               *)
(***************************************************************************)
C23_RecommendationsNeverEmpty ==
    /\ (WellnessAnswered /\ response.status = 200)
        => Len(response.recommendations) >= 1
    /\ (call # NoCall /\ call.op = "generate_wellness_recommendations")
        => Len(call.out) >= 1

(***************************************************************************)
(* C25.  calculate_wellness_score of src/backend/app.py returns a score in *)
(* 0..100 for every sleep_hours >= 0 and every stress_level in 1..10.      *)
(***************************************************************************)
C25_BackendScoreBounded ==
    (/\ call # NoCall
     /\ call.op = "calculate_wellness_score"
     /\ RLe(R(0), call.args.sleep_hours)
     /\ RLe(R(1), call.args.stress_level)
     /\ RLe(call.args.stress_level, R(10)))
    => (call.out >= 0 /\ call.out <= 100)

(***************************************************************************)
(* C24.  The goal of a nutrition-calculate request decides the calories of *)
(* the response: round(tdee - 500) for "lose", round(tdee + 300) for       *)
(* "gain", round(tdee) for another goal or none.                           *)
(***************************************************************************)
NutritionAnswered ==
    /\ request # NoRequest
    /\ request.op = "calculate_nutrition"
    /\ response.status = 200

\* the tdee of the request's person, the calculator applied to the body
RequestTdee ==
    calculate_tdee(calculate_bmr(request.body.weight, request.body.height,
                                 request.body.age, request.body.gender).value,
                   request.body.activity)

C24_GoalDecidesCalories ==
    NutritionAnswered
    => response.results.calories =
        IF Has(request.body, "goal") /\ request.body.goal = "lose"
        THEN Round(RSub(RequestTdee, R(500)))
        ELSE IF Has(request.body, "goal") /\ request.body.goal = "gain"
        THEN Round(RAdd(RequestTdee, R(300)))
        ELSE Round(RequestTdee)

(***************************************************************************)
(* C26.  The donation endpoint answers every amount <= 0 with 400 and      *)
(* success = false; every amount > 0 succeeds and reports                  *)
(* meals_provided = floor(amount / 2.5), which is more than 0, and         *)
(* people_helped = max(1, floor(meals_provided / 3)).                      *)
(***************************************************************************)
DonationAnswered ==
    /\ request # NoRequest
    /\ request.op = "calculate_donation_impact"
    /\ Has(request.body, "amount")
    /\ IsNumber(request.body.amount)

\* floor(n / d) for d > 0, in integers
FloorDiv(n, d) == IF n >= 0 THEN n \div d ELSE -((-n + d - 1) \div d)

C26_DonationImpact ==
    DonationAnswered
    => LET amount == request.body.amount
           meals == FloorDiv(2 * amount.n, 5 * amount.d)
       IN  IF amount.n <= 0
           THEN response.status = 400 /\ response.success = FALSE
           ELSE /\ response.status = 200
                /\ response.success = TRUE
                /\ response.breakdown.meals_provided = meals
                /\ response.breakdown.meals_provided > 0
                /\ response.breakdown.people_helped =
                    (IF FloorDiv(meals, 3) > 1 THEN FloorDiv(meals, 3) ELSE 1)

(***************************************************************************)
(* C27.  No two User records share an email, also when two register        *)
(* requests for one email run side by side, both past the existence check  *)
(* before either commits: one of them creates the user and gets 201, the   *)
(* other is answered 409 and never 500.                                    *)
(***************************************************************************)
C27_ConcurrentRegister ==
    /\ \A i, j \in 1..Len(users) : users[i].email = users[j].email => i = j
    /\ \A w \in Threads :
        (workers[w].pc = "respond" /\ workers[w].op = "register"
            /\ Has(workers[w].body, "name") /\ Has(workers[w].body, "email")
            /\ Has(workers[w].body, "password"))
        => \/ workers[w].response.status = 201
           \/ workers[w].response.status = 409

(***************************************************************************)
(* C28.  However meal-log requests follow and overlap each other, a user   *)
(* holds at most one 'Daily Meal Master' UserAchievement per calendar day; *)
(* a request whose check counted three meals or more and did not fail      *)
(* leaves the user with one; and a failure inside the check neither makes  *)
(* the request fail nor removes the logged meal.                           *)
(***************************************************************************)
DailyMealMasters(user_id, day) ==
    {i \in 1..Len(user_achievements) :
        /\ user_achievements[i].user_id = user_id
        /\ user_achievements[i].achievement = "Daily Meal Master"
        /\ user_achievements[i].earned_at = day}

C28_OneDailyMealMaster ==
    /\ \A user_id \in tokens, day \in 0..MaxDay :
        Cardinality(DailyMealMasters(user_id, day)) <= 1
    /\ \A w \in Threads :
        (workers[w].pc = "respond" /\ workers[w].op = "log_meal"
            /\ workers[w].response.status # 401)
        => /\ workers[w].response.status = 200
           /\ \E i \in 1..Len(meal_logs) :
                /\ meal_logs[i].id = workers[w].meal_id
                /\ meal_logs[i].user_id = workers[w].user_id
           /\ (~workers[w].failed /\ workers[w].meals_today >= 3)
                => \E day \in workers[w].today..MaxDay :
                        DailyMealMasters(workers[w].user_id, day) # {}

(***************************************************************************)
(* C30.  However authenticated nutrition-calculate requests follow and     *)
(* overlap each other, each user has at most one UserProfile, holding the  *)
(* values of the latest request, and each successful request adds exactly  *)
(* one NutritionPlan of its user and leaves the plans and the profiles of  *)
(* the other users as they were.                                           *)
(***************************************************************************)
C30_OneProfilePerUser ==
    /\ [](\A user_id \in tokens : Cardinality(RowsOf(profiles, user_id)) <= 1)
    /\ [][ \A w \in Threads :
            (/\ workers[w].pc = "commit"
             /\ workers[w].op = "calculate_nutrition"
             /\ workers'[w].pc = "respond")
            => /\ Len(plans') = Len(plans) + 1
               /\ plans'[Len(plans')].user_id = workers[w].user_id
               /\ \A i \in 1..Len(plans) : plans'[i] = plans[i]
               /\ \A i \in 1..Len(profiles) :
                    profiles[i].user_id # workers[w].user_id
                        => profiles'[i] = profiles[i]
               /\ \E i \in RowsOf(profiles', workers[w].user_id) :
                    /\ profiles'[i].age = workers[w].body.age
                    /\ profiles'[i].gender = workers[w].body.gender
                    /\ profiles'[i].height = workers[w].body.height
                    /\ profiles'[i].weight = workers[w].body.weight
                    /\ profiles'[i].activity_level = workers[w].body.activity ]_vars

(***************************************************************************)
(* C29.  Meals are isolated per user: whatever registrations and meal logs *)
(* came before, the meals and totals the meals-today operation (and the    *)
(* statistics of src/production_backend_fixed.py) return to a user are     *)
(* exactly those of the user's own rows of the current date, and a meal    *)
(* logged by one user changes no other user's meals of any date.           *)
(***************************************************************************)
\* the rows of the table the user logged, on the day or on any day
OwnRows(user_id) == {i \in 1..Len(meal_logs) : meal_logs[i].user_id = user_id}
OwnRowsOn(user_id, day) == {i \in OwnRows(user_id) : meal_logs[i].logged_at = day}

C29_MealsIsolated ==
    /\ [](TodayAnswered
            => /\ {response.meals[k].id : k \in 1..Len(response.meals)}
                    = {meal_logs[i].id : i \in OwnRowsOn(request.token, clock)}
               /\ Len(response.meals) = Cardinality(OwnRowsOn(request.token, clock))
               /\ response.totals.meal_count
                    = Cardinality(OwnRowsOn(request.token, clock))
               /\ response.totals.calories
                    = NutrientTotal(OwnRowsOn(request.token, clock), "calories")
               /\ response.totals.protein
                    = NutrientTotal(OwnRowsOn(request.token, clock), "protein"))
    /\ []((request.op = "get_stats" /\ response.status = 200)
            => /\ response.total_meals = Cardinality(OwnRows(request.token))
               /\ response.today.meal_count
                    = Cardinality(OwnRowsOn(request.token, clock))
               /\ \A nutrient \in {"calories", "protein", "carbs", "fat"} :
                    response.today[nutrient]
                        = NutrientTotal(OwnRowsOn(request.token, clock), nutrient))
    /\ [][ (request = NoRequest /\ request' # NoRequest /\ request'.op = "log_meal")
            => \A user_id \in tokens \ {request'.token} :
                SelectSeq(meal_logs', LAMBDA meal : meal.user_id = user_id)
                    = SelectSeq(meal_logs, LAMBDA meal : meal.user_id = user_id) ]_vars

\* user 1 asks for today's meals and gets the one of the own rows, while the
\* table holds two meals of user 2 of the same day
C29_Witness ==
    /\ TodayAnswered
    /\ request.token = 1
    /\ Len(response.meals) = 1
    /\ Cardinality(OwnRowsOn(2, clock)) = 2
    /\ response.totals.calories = R(400)

====
